---- MODULE Spec2Model ----
(***************************************************************************)
(* Model of the backend's chunking, indexing and retrieval code.           *)
(*                                                                         *)
(* backend/vector_store.py: the FAISS index handle, the module-level       *)
(* METADATA_STORE dictionary, the module-level index_lock (threading.Lock, *)
(* not re-entrant) and the two persisted files written through temporary   *)
(* files.  Each thread executes one vector-store call at a time; pc[t] is  *)
(* its position inside that call (Spec, FairSpec).                         *)
(*                                                                         *)
(* backend/retrieval.py: retrieve_relevant_chunks with its database        *)
(* session and the load_index and search_index calls it makes, started     *)
(* from the files earlier runs left on disk (QuerySpec).                   *)
(*                                                                         *)
(* backend/data_preprocessing.py: chunk_document as a function of the      *)
(* sentence list and its three size parameters (ChunkSpec).                *)
(***************************************************************************)
EXTENDS Integers, Sequences, FiniteSets, TLC

\* ---- bounds of the model ------------------------------------------------
NumThreads == 2      \* request-handling threads
NumDocs    == 2      \* distinct chunks (vector value = chunk tag)
MaxBatch   == 1      \* largest N of one add / one caller-built index
MaxVecs    == 1      \* an add is started only while index.ntotal + N <= MaxVecs
MaxKeys    == 2      \* ... and len(METADATA_STORE) + N <= MaxKeys
MaxK       == 2      \* largest top_k of a search
MaxCalls   == 5      \* calls started in one behaviour
NumQueriers == 1     \* threads that serve queries at the same time
MaxStored  == 2      \* most vectors / metadata entries of a persisted file a query starts from
MaxSents   == 3      \* most sentences of a text given to chunk_document
MaxSentLen == 3      \* most words of one sentence
MaxChunk   == 3      \* largest max_chunk_size and min_chunk_size
MaxOverlap == 2      \* largest overlap
MaxText    == 3      \* most symbols of a text the language model generates

Threads == 1..NumThreads
Docs    == 1..NumDocs
Free    == 0         \* value of lock when nobody holds it

\* ---- values ---------------------------------------------------------------
\* A Python dict int -> metadata is a function whose domain is its key set.
EmptyDict == <<>>

DictLen(d) == Cardinality(DOMAIN d)

\* an index handle: has = FALSE is "no index object" (None / unassigned)
NoIndex == [has |-> FALSE, vecs |-> <<>>]

NewIndex(v) == [has |-> TRUE, vecs |-> v]

\* index.ntotal
Ntotal(ix) == Len(ix.vecs)

\* a file on disk: absent, partially written, or holding complete content
Absent == [st |-> "absent", data |-> <<>>]

Partial == [st |-> "partial", data |-> <<>>]

Complete(c) == [st |-> "complete", data |-> c]

\* os.path.exists / Path.exists
Exists(f) == f.st # "absent"

\* the batches a caller may pass: 1..MaxBatch chunks
Batches == UNION {[1..n -> Docs] : n \in 1..MaxBatch}

\* metadata[i] of a batch, as the caller builds it (one record per chunk)
MetaOf(batch) == [k \in 0..(Len(batch) - 1) |-> batch[k + 1]]

VARIABLES
  lock,            \* index_lock: Free or the thread that holds it
  METADATA_STORE,  \* the module-level dict currently bound to the name
  fIndex, fMeta,   \* FAISS_INDEX_PATH and FAISS_INDEX_PATH.meta
  tmpIndex, tmpMeta, \* FAISS_INDEX_PATH.temp and FAISS_INDEX_PATH.meta.temp
  pc,              \* pc[t]: position of thread t
  fn,              \* fn[t]: the function the thread called ("none" when idle)
  tindex,          \* tindex[t]: the index object the thread's caller holds
  res,             \* res[t]: outcome of the thread's last finished call
  aBatch,          \* add: embeddings / metadata arguments
  start_id,        \* add: start_id (ids is start_id .. start_id+N-1)
  ntotal0,         \* history: index.ntotal when add took the lock
  ret,             \* add: the returned id list
  sIdx, sMeta,     \* save_index: arguments index, metadata
  lIdx,            \* load_index: local variable index
  qv, topk,        \* search_index: query_embedding, top_k
  sDist, sHits, sOut, \* search_index: distances, indices, metadata_list
  calls,           \* history: number of calls started so far
  issued,          \* history: the ids add has returned so far
  saved,           \* history: arguments of the last save that completed, if still on disk
  rpc,             \* rpc[t]: position of thread t inside retrieve_relevant_chunks
  rerr,            \* retrieve: the exception on its way to the caller
  rdist, rhits, rout, \* retrieve: distances, indices, retrieved_metadata
  rret,            \* retrieve: the value returned to the caller
  dbPending,       \* dbPending[t]: objects added to t's session, not yet committed
  nCommit,         \* history: successful db.commit() calls of the running retrieve
  nRollback,       \* history: db.rollback() calls of the running retrieve
  dbLogged,        \* dbLogged[t]: the Query row of t's retrieve is committed
  cPc,             \* chunk_document: "off", "input" (arguments bound), "done"
  cSents,          \* chunk_document: word count of each sentence of the text
  cMax, cMin, cOv, \* chunk_document: max_chunk_size, min_chunk_size, overlap
  cRun,            \* chunk_document: what the call computed
  dataDir,         \* DATA_DIR: for each file what chunk_document makes of it
  dbDocs,          \* the committed rows of the documents table (their file_path)
  ipc,             \* ipc[t]: position of thread t inside preprocess_and_index_documents
  ierr,            \* ingestion: the exception on its way to the caller
  iIds,            \* ingestion: vector_ids, the list add_documents_to_index returned
  iTries,          \* ingestion: attempts load_embedding_model has made
  iNext,           \* ingestion: the next element of docs the loop looks at
  iNew,            \* ingestion: Document rows flushed in the session, not committed
  iChunks,         \* ingestion: the list chunks
  iEmb,            \* the encoder has returned the embeddings of the call
  iRolled,         \* history: the run has called db.rollback()
  iAfter,          \* history: the run began after a run that completed without error
  onceOk,          \* history: some run has completed without error
  gpc,             \* llm_integration: "off", "import" (being imported), "up"
  gTries,          \* attempts the running initialize_generator call has made
  generator,       \* the module-level name generator: "unbound" or "ready"
  getter,          \* which get_generator the import defined
  gDemand,         \* history: get_generator has called initialize_generator
  lpc,             \* lpc[t]: position of thread t inside a generate_* call
  lfn,             \* the generate_* function thread t called
  lq, lch,         \* its arguments query and retrieved_chunks
  ltext,           \* generate_structured_response: generated_text
  lres,            \* the value the call returns
  lfb,             \* history: arguments of the generate_response calls made inside
  epc,             \* epc[t]: position of thread t inside query_endpoint
  eq, estruct,     \* query_endpoint: query, use_structured_output
  echunks,         \* query_endpoint: retrieved_chunks
  eerr,            \* query_endpoint: the exception retrieve_relevant_chunks raised
  eans,            \* query_endpoint: answer
  http,            \* the status code of the response (0: none yet)
  edetail          \* the detail of an error response

vars == <<lock, METADATA_STORE, fIndex, fMeta, tmpIndex, tmpMeta, pc, fn,
          tindex, res, aBatch, start_id, ntotal0, ret, sIdx, sMeta, lIdx, qv, topk,
          sDist, sHits, sOut, calls, issued, saved,
          rpc, rerr, rdist, rhits, rout, rret, dbPending, nCommit, nRollback, dbLogged,
          cPc, cSents, cMax, cMin, cOv, cRun,
          dataDir, dbDocs, ipc, ierr, iIds, iTries, iNext, iNew, iChunks, iEmb,
          iRolled, iAfter, onceOk,
          gpc, gTries, generator, getter, gDemand, lpc, lfn, lq, lch, ltext, lres, lfb,
          epc, eq, estruct, echunks, eerr, eans, http, edetail>>

\* the state of data_preprocessing.chunk_document
chunkVars == <<cPc, cSents, cMax, cMin, cOv, cRun>>

\* the database session and tables retrieve_relevant_chunks works on
dbVars == <<rret, dbPending, nCommit, nRollback, dbLogged>>

\* what a vector-store call hands to retrieve_relevant_chunks when it returns
handed == <<rpc, rerr, rdist, rhits, rout>>

\* the three lists search_index returned to retrieve_relevant_chunks
found == <<rdist, rhits, rout>>

\* the state of vector_store.py and of the calls into it
storeVars == <<lock, METADATA_STORE, fIndex, fMeta, tmpIndex, tmpMeta, pc, fn,
               tindex, res, aBatch, start_id, ntotal0, ret, sIdx, sMeta, lIdx, qv,
               topk, sDist, sHits, sOut, calls, issued, saved>>

\* what a vector-store call hands to preprocess_and_index_documents when it
\* returns
given == <<ipc, ierr, iIds>>

\* the rest of a run of preprocess_and_index_documents, the data directory and
\* the documents table
ingestVars == <<dataDir, dbDocs, iTries, iNext, iNew, iChunks, iEmb, iRolled, iAfter,
                onceOk>>

\* the state of llm_integration.py and of the calls into it
llmVars == <<gpc, gTries, generator, getter, gDemand, lpc, lfn, lq, lch, ltext, lres, lfb>>

\* the request query_endpoint serves and the response it builds
askVars == <<eq, estruct, http, edetail>>

\* the state of app.query_endpoint
apiVars == <<epc, echunks, eerr, eans, askVars>>

\* the state of the callers that no step of a vector-store call touches
hostVars == <<ingestVars, llmVars, apiVars>>

\* the state no step inside a vector-store call touches
apart == <<chunkVars, dbVars, handed, given, hostVars>>

disk == <<fIndex, fMeta, tmpIndex, tmpMeta>>

\* the arguments and local variables of the running call
callLocals == <<aBatch, start_id, ntotal0, sIdx, sMeta, lIdx, qv, topk>>

\* what the last call handed back
outs == <<ret, sDist, sHits, sOut>>

NoSaved == [ok |-> FALSE, idx |-> <<>>, meta |-> EmptyDict]

NoMetaArg == [alias |-> FALSE, val |-> EmptyDict]

\* a process that has just started: nothing loaded, every thread idle
MemInit ==
  /\ lock = Free
  /\ METADATA_STORE = EmptyDict
  /\ tmpIndex = Absent /\ tmpMeta = Absent
  /\ pc = [t \in Threads |-> "idle"]
  /\ fn = [t \in Threads |-> "none"]
  /\ tindex = [t \in Threads |-> NoIndex]
  /\ res = [t \in Threads |-> "none"]
  /\ aBatch = [t \in Threads |-> <<>>]
  /\ start_id = [t \in Threads |-> 0]
  /\ ntotal0 = [t \in Threads |-> 0]
  /\ ret = [t \in Threads |-> <<>>]
  /\ sIdx = [t \in Threads |-> NoIndex]
  /\ sMeta = [t \in Threads |-> NoMetaArg]
  /\ lIdx = [t \in Threads |-> NoIndex]
  /\ qv = [t \in Threads |-> 0]
  /\ topk = [t \in Threads |-> 0]
  /\ sDist = [t \in Threads |-> <<>>]
  /\ sHits = [t \in Threads |-> <<>>]
  /\ sOut = [t \in Threads |-> <<>>]
  /\ calls = 0
  /\ issued = {}
  /\ saved = NoSaved

\* no thread is inside retrieve_relevant_chunks
RetrieveIdle ==
  /\ rpc = [t \in Threads |-> "none"]
  /\ rerr = [t \in Threads |-> "none"]
  /\ rdist = [t \in Threads |-> <<>>]
  /\ rhits = [t \in Threads |-> <<>>]
  /\ rout = [t \in Threads |-> <<>>]
  /\ rret = [t \in Threads |-> <<>>]
  /\ dbPending = [t \in Threads |-> 0]
  /\ nCommit = [t \in Threads |-> 0]
  /\ nRollback = [t \in Threads |-> 0]
  /\ dbLogged = [t \in Threads |-> FALSE]

NoRun == [chunks |-> <<>>, closed |-> <<>>, cur |-> <<>>, pre |-> 0]

\* chunk_document is not being called
ChunkOff ==
  /\ cPc = "off"
  /\ cSents = <<>>
  /\ cMax = 0 /\ cMin = 0 /\ cOv = 0
  /\ cRun = NoRun

\* no thread is inside preprocess_and_index_documents
IngestIdle ==
  /\ ipc = [t \in Threads |-> "none"]
  /\ ierr = [t \in Threads |-> "none"]
  /\ iIds = [t \in Threads |-> <<>>]
  /\ iTries = [t \in Threads |-> 0]
  /\ iNext = [t \in Threads |-> 1]
  /\ iNew = [t \in Threads |-> {}]
  /\ iChunks = [t \in Threads |-> <<>>]
  /\ iEmb = [t \in Threads |-> FALSE]
  /\ iRolled = [t \in Threads |-> FALSE]
  /\ iAfter = [t \in Threads |-> FALSE]
  /\ onceOk = FALSE

\* an empty data directory and an empty documents table
NoData ==
  /\ dataDir = [f \in Docs |-> "absent"]
  /\ dbDocs = {}

\* nothing is ingested
IngestOff == IngestIdle /\ NoData

\* the value of a name that holds no result
NoText == [kind |-> "none", q |-> 0, ch |-> <<>>, err |-> "none"]

NoAnswer == [kind |-> "none", err |-> "none", raw |-> NoText]

\* no thread is inside generate_response or generate_structured_response
LlmIdle ==
  /\ lpc = [t \in Threads |-> "none"]
  /\ lfn = [t \in Threads |-> "none"]
  /\ lq = [t \in Threads |-> 0]
  /\ lch = [t \in Threads |-> <<>>]
  /\ ltext = [t \in Threads |-> <<>>]
  /\ lres = [t \in Threads |-> NoAnswer]
  /\ lfb = [t \in Threads |-> <<>>]

\* no thread is inside query_endpoint
ApiIdle ==
  /\ epc = [t \in Threads |-> "none"]
  /\ eq = [t \in Threads |-> 0]
  /\ estruct = [t \in Threads |-> FALSE]
  /\ echunks = [t \in Threads |-> <<>>]
  /\ eerr = [t \in Threads |-> "none"]
  /\ eans = [t \in Threads |-> NoAnswer]
  /\ http = [t \in Threads |-> 0]
  /\ edetail = [t \in Threads |-> "none"]

\* llm_integration is not imported and no query is served
AskOff ==
  /\ gpc = "off" /\ gTries = 0
  /\ generator = "unbound" /\ getter = "undefined" /\ gDemand = FALSE
  /\ LlmIdle
  /\ ApiIdle

Init ==
  /\ MemInit
  /\ fIndex = Absent /\ fMeta = Absent
  /\ RetrieveIdle
  /\ ChunkOff
  /\ IngestOff
  /\ AskOff

\* ---- helpers shared by the calls ----------------------------------------
\* the dict a save_index call sees through its metadata parameter
MetaArg(t) == IF sMeta[t].alias THEN METADATA_STORE ELSE sMeta[t].val

\* ids = np.array(list(range(start_id, start_id + num_embeddings)))
Ids(t) == [i \in 1..Len(aBatch[t]) |-> start_id[t] + i - 1]

\* the function of this module that the handler thread t runs is about to call
\* ("none": t runs no handler, or its handler is not at such a call)
Outer(t) == IF rpc[t] # "none" THEN rpc[t] ELSE ipc[t]

\* a thread enters a call: it starts by waiting for index_lock.  A thread
\* inside retrieve_relevant_chunks or preprocess_and_index_documents enters only
\* the call its handler makes next; calls counts the calls the threads start
\* themselves.
Enter(t, f) ==
  /\ pc[t] = "idle"
  /\ Outer(t) \in {"none", f}
  /\ Outer(t) = "none" => calls < MaxCalls
  /\ calls' = IF Outer(t) = "none" THEN calls + 1 ELSE calls
  /\ UNCHANGED <<issued, apart>>
  /\ fn' = [fn EXCEPT ![t] = f]
  /\ pc' = [pc EXCEPT ![t] = f \o "_lock"]

\* `with index_lock:` -- threading.Lock.acquire blocks until the lock is free,
\* also when the waiting thread is the holder (the lock is not re-entrant)
Acquire(t, from, to) ==
  /\ pc[t] = from
  /\ lock = Free
  /\ lock' = t
  /\ pc' = [pc EXCEPT ![t] = to]

Goto(t, from, to) ==
  /\ pc[t] = from
  /\ pc' = [pc EXCEPT ![t] = to]

\* the body has reached a return statement or raised: outcome r
Finish(t, r) ==
  /\ pc' = [pc EXCEPT ![t] = "ret"]
  /\ res' = [res EXCEPT ![t] = r]

\* leaving the `with index_lock:` block: the lock is released and the caller
\* gets the result; an index is handed over only by a call that returned one
Return(t) ==
  /\ UNCHANGED <<calls, issued, chunkVars, dbVars, hostVars>>
  /\ pc[t] = "ret"
  /\ lock' = Free
  /\ pc' = [pc EXCEPT ![t] = "idle"]
  /\ tindex' = [tindex EXCEPT ![t] =
                  IF res[t] = "ok" /\ lIdx[t].has THEN lIdx[t] ELSE @]
  /\ fn' = [fn EXCEPT ![t] = "none"]
  /\ res' = [res EXCEPT ![t] = "none"]
  /\ aBatch' = [aBatch EXCEPT ![t] = <<>>]
  /\ start_id' = [start_id EXCEPT ![t] = 0]
  /\ ntotal0' = [ntotal0 EXCEPT ![t] = 0]
  /\ sIdx' = [sIdx EXCEPT ![t] = NoIndex]
  /\ sMeta' = [sMeta EXCEPT ![t] = NoMetaArg]
  /\ lIdx' = [lIdx EXCEPT ![t] = NoIndex]
  /\ qv' = [qv EXCEPT ![t] = 0]
  /\ topk' = [topk EXCEPT ![t] = 0]
  /\ ret' = [ret EXCEPT ![t] = <<>>]
  /\ sDist' = [sDist EXCEPT ![t] = <<>>]
  /\ sHits' = [sHits EXCEPT ![t] = <<>>]
  /\ sOut' = [sOut EXCEPT ![t] = <<>>]
  /\ rpc' = [rpc EXCEPT ![t] = IF @ = "none" THEN @
                                ELSE IF res[t] # "ok" THEN "except"
                                ELSE IF @ = "load" THEN "search" ELSE "record"]
  /\ rerr' = [rerr EXCEPT ![t] = IF rpc[t] # "none" /\ res[t] # "ok" THEN res[t] ELSE @]
  /\ rdist' = [rdist EXCEPT ![t] = IF rpc[t] = "search" /\ res[t] = "ok" THEN sDist[t] ELSE @]
  /\ rhits' = [rhits EXCEPT ![t] = IF rpc[t] = "search" /\ res[t] = "ok" THEN sHits[t] ELSE @]
  /\ rout' = [rout EXCEPT ![t] = IF rpc[t] = "search" /\ res[t] = "ok" THEN sOut[t] ELSE @]
  /\ ipc' = [ipc EXCEPT ![t] = IF @ = "none" THEN @
                                ELSE IF res[t] # "ok" THEN "except"
                                ELSE IF @ = "create" THEN "add" ELSE "commit"]
  /\ ierr' = [ierr EXCEPT ![t] = IF ipc[t] # "none" /\ res[t] # "ok" THEN res[t] ELSE @]
  /\ iIds' = [iIds EXCEPT ![t] = IF ipc[t] = "add" /\ res[t] = "ok" THEN ret[t] ELSE @]
  /\ UNCHANGED <<METADATA_STORE, disk, saved>>

\* ---- create_faiss_index ---------------------------------------------------
CreateCall(t) ==
  /\ Enter(t, "create")
  /\ UNCHANGED <<lock, METADATA_STORE, disk, tindex, res, callLocals, outs, saved>>

CreateAcquire(t) ==
  /\ UNCHANGED <<calls, issued, apart>>
  /\ Acquire(t, "create_lock", "create_body")
  /\ UNCHANGED <<METADATA_STORE, disk, fn, tindex, res, callLocals, outs, saved>>

CreateBody(t) ==
  /\ UNCHANGED <<calls, issued, apart>>
  /\ pc[t] = "create_body"
  /\ IF Exists(fIndex) /\ Exists(fMeta)
       THEN \* return load_index(): load_index takes index_lock again
            /\ pc' = [pc EXCEPT ![t] = "load_lock"]
            /\ UNCHANGED <<res, lIdx>>
       ELSE \* faiss.IndexFlatL2(dim); mkdir; return index
            /\ lIdx' = [lIdx EXCEPT ![t] = NewIndex(<<>>)]
            /\ Finish(t, "ok")
  /\ UNCHANGED <<lock, METADATA_STORE, disk, fn, tindex, aBatch, start_id, ntotal0,
                 sIdx, sMeta, qv, topk, outs, saved>>

\* ---- load_index -----------------------------------------------------------
LoadCall(t) ==
  /\ Enter(t, "load")
  /\ UNCHANGED <<lock, METADATA_STORE, disk, tindex, res, callLocals, outs, saved>>

\* load_index entered without waiting for index_lock
LoadAcquire_NoWait(t) ==
  /\ UNCHANGED <<calls, issued, apart>>
  /\ Goto(t, "load_lock", "load_chk")
  /\ UNCHANGED <<lock, METADATA_STORE, disk, fn, tindex, res, callLocals, outs, saved>>

LoadAcquire(t) ==
  /\ UNCHANGED <<calls, issued, apart>>
  /\ Acquire(t, "load_lock", "load_chk")
  /\ UNCHANGED <<METADATA_STORE, disk, fn, tindex, res, callLocals, outs, saved>>

\* the two os.path.exists tests in the other order
LoadCheck_MetaFirst(t) ==
  /\ UNCHANGED <<calls, issued, apart>>
  /\ pc[t] = "load_chk"
  /\ IF ~Exists(fMeta)
       THEN Finish(t, "FileNotFoundError: Metadata file not found")
       ELSE IF ~Exists(fIndex)
         THEN Finish(t, "FileNotFoundError: FAISS index not found")
         ELSE /\ pc' = [pc EXCEPT ![t] = "load_ridx"]
              /\ UNCHANGED res
  /\ UNCHANGED <<lock, METADATA_STORE, disk, fn, tindex, callLocals, outs, saved>>

\* the two os.path.exists tests, in the order of the code
LoadCheck(t) ==
  /\ UNCHANGED <<calls, issued, apart>>
  /\ pc[t] = "load_chk"
  /\ IF ~Exists(fIndex)
       THEN Finish(t, "FileNotFoundError: FAISS index not found")
       ELSE IF ~Exists(fMeta)
         THEN Finish(t, "FileNotFoundError: Metadata file not found")
         ELSE /\ pc' = [pc EXCEPT ![t] = "load_ridx"]
              /\ UNCHANGED res
  /\ UNCHANGED <<lock, METADATA_STORE, disk, fn, tindex, callLocals, outs, saved>>

\* index = faiss.read_index(path): reads the file or raises
LoadReadIndex(t) ==
  /\ UNCHANGED <<calls, issued, apart>>
  /\ pc[t] = "load_ridx"
  /\ \/ /\ fIndex.st = "complete"
        /\ lIdx' = [lIdx EXCEPT ![t] = NewIndex(fIndex.data)]
        /\ pc' = [pc EXCEPT ![t] = "load_rmeta"]
        /\ UNCHANGED res
     \/ /\ Finish(t, "ReadError")
        /\ UNCHANGED lIdx
  /\ UNCHANGED <<lock, METADATA_STORE, disk, fn, tindex, aBatch, start_id, ntotal0,
                 sIdx, sMeta, qv, topk, outs, saved>>

\* METADATA_STORE = pickle.load(f); return index.  The name is rebound to a
\* new dict: a save_index call that was handed the old dict keeps the old one.
LoadReadMeta(t) ==
  /\ UNCHANGED <<calls, issued, apart>>
  /\ pc[t] = "load_rmeta"
  /\ \/ /\ fMeta.st = "complete"
        /\ METADATA_STORE' = fMeta.data
        /\ sMeta' = [u \in Threads |->
                       IF sMeta[u].alias
                         THEN [alias |-> FALSE, val |-> METADATA_STORE]
                         ELSE sMeta[u]]
        /\ Finish(t, "ok")
     \/ /\ Finish(t, "ReadError")
        /\ UNCHANGED <<METADATA_STORE, sMeta>>
  /\ UNCHANGED <<lock, disk, fn, tindex, aBatch, start_id, ntotal0, sIdx, lIdx, qv, topk,
                 outs, saved>>

\* ---- save_index -----------------------------------------------------------
\* A direct call: with the caller's index and the module's METADATA_STORE, or
\* with an index the caller built from a batch and that batch's metadata.
SaveCall(t) ==
  /\ Enter(t, "save")
  /\ \/ /\ tindex[t].has
        /\ sIdx' = [sIdx EXCEPT ![t] = tindex[t]]
        /\ sMeta' = [sMeta EXCEPT ![t] = [alias |-> TRUE, val |-> EmptyDict]]
     \/ \E b \in Batches :
          /\ sIdx' = [sIdx EXCEPT ![t] = NewIndex(b)]
          /\ sMeta' = [sMeta EXCEPT ![t] = [alias |-> FALSE, val |-> MetaOf(b)]]
  /\ UNCHANGED <<lock, METADATA_STORE, disk, tindex, res, aBatch, start_id, ntotal0,
                 lIdx, qv, topk, outs, saved>>

SaveAcquire(t) ==
  /\ UNCHANGED <<calls, issued, apart>>
  /\ Acquire(t, "save_lock", "save_widx")
  /\ UNCHANGED <<METADATA_STORE, disk, fn, tindex, res, callLocals, outs, saved>>

\* faiss.write_index(index, path): the final file is opened for writing
SaveWriteIndexBegin_InPlace(t) ==
  /\ UNCHANGED <<calls, issued, apart>>
  /\ Goto(t, "save_widx", "save_widx2")
  /\ fIndex' = Partial
  /\ UNCHANGED <<lock, METADATA_STORE, tmpIndex, fMeta, tmpMeta, fn, tindex,
                 res, callLocals, outs, saved>>

\* faiss.write_index(index, temp_index_path): the temporary file is opened ...
SaveWriteIndexBegin(t) ==
  /\ UNCHANGED <<calls, issued, apart>>
  /\ Goto(t, "save_widx", "save_widx2")
  /\ tmpIndex' = Partial
  /\ UNCHANGED <<lock, METADATA_STORE, fIndex, fMeta, tmpMeta, fn, tindex,
                 res, callLocals, outs, saved>>

\* ... and written to the end
SaveWriteIndexEnd(t) ==
  /\ UNCHANGED <<calls, issued, apart>>
  /\ Goto(t, "save_widx2", "save_wmeta")
  /\ tmpIndex' = Complete(sIdx[t].vecs)
  /\ UNCHANGED <<lock, METADATA_STORE, fIndex, fMeta, tmpMeta, fn, tindex,
                 res, callLocals, outs, saved>>

\* open(temp_meta_path, "wb") ...
SaveWriteMetaBegin(t) ==
  /\ UNCHANGED <<calls, issued, apart>>
  /\ Goto(t, "save_wmeta", "save_wmeta2")
  /\ tmpMeta' = Partial
  /\ UNCHANGED <<lock, METADATA_STORE, fIndex, fMeta, tmpIndex, fn, tindex,
                 res, callLocals, outs, saved>>

\* pickle.dump(list(metadata.values()), f): the keys are not written
SaveWriteMetaEnd_ValuesOnly(t) ==
  /\ UNCHANGED <<calls, issued, apart>>
  /\ Goto(t, "save_wmeta2", "save_mv1")
  /\ tmpMeta' = Complete([k \in 1..DictLen(MetaArg(t)) |->
                            MetaArg(t)[CHOOSE m \in DOMAIN MetaArg(t) :
                               Cardinality({n \in DOMAIN MetaArg(t) : n < m}) = k - 1]])
  /\ UNCHANGED <<lock, METADATA_STORE, fIndex, fMeta, tmpIndex, fn, tindex,
                 res, callLocals, outs, saved>>

\* ... pickle.dump(metadata, f)
SaveWriteMetaEnd(t) ==
  /\ UNCHANGED <<calls, issued, apart>>
  /\ Goto(t, "save_wmeta2", "save_mv1")
  /\ tmpMeta' = Complete(MetaArg(t))
  /\ UNCHANGED <<lock, METADATA_STORE, fIndex, fMeta, tmpIndex, fn, tindex,
                 res, callLocals, outs, saved>>

\* os.replace(temp_index_path, path)
SaveReplaceIndex(t) ==
  /\ UNCHANGED <<calls, issued, apart>>
  /\ Goto(t, "save_mv1", "save_mv2")
  /\ fIndex' = tmpIndex
  /\ tmpIndex' = Absent
  /\ saved' = NoSaved
  /\ UNCHANGED <<lock, METADATA_STORE, fMeta, tmpMeta, fn, tindex,
                 res, callLocals, outs>>

\* os.replace(temp_meta_path, path + ".meta"); save_index returns.  When the
\* caller is add_documents_to_index, add goes on to return ids.tolist().
SaveReplaceMeta(t) ==
  /\ UNCHANGED <<calls, apart>>
  /\ pc[t] = "save_mv2"
  /\ fMeta' = tmpMeta
  /\ tmpMeta' = Absent
  /\ saved' = [ok |-> TRUE, idx |-> sIdx[t].vecs, meta |-> MetaArg(t)]
  /\ ret' = [ret EXCEPT ![t] = IF fn[t] = "add" THEN Ids(t) ELSE <<>>]
  /\ issued' = IF fn[t] = "add" THEN issued \cup {Ids(t)[i] : i \in 1..Len(Ids(t))}
                                 ELSE issued
  /\ Finish(t, "ok")
  /\ UNCHANGED <<lock, METADATA_STORE, fIndex, tmpIndex, fn, tindex, callLocals,
                 sDist, sHits, sOut>>

\* any statement of the try block raises: logged and re-raised
SaveFail(t) ==
  /\ UNCHANGED <<calls, issued, apart>>
  /\ pc[t] \in {"save_widx", "save_widx2", "save_wmeta", "save_wmeta2",
                "save_mv1", "save_mv2"}
  /\ Finish(t, "SaveError")
  /\ UNCHANGED <<lock, METADATA_STORE, disk, fn, tindex, callLocals, outs, saved>>

\* ---- add_documents_to_index ------------------------------------------------
\* ids paired with metadata by zip and stored under METADATA_STORE[int(i)]
StoreWith(store, first, batch) ==
  LET ids == first..(first + Len(batch) - 1)
  IN  [k \in (DOMAIN store) \cup ids |->
         IF k \in ids THEN MetaOf(batch)[k - first] ELSE store[k]]

AddCall(t) ==
  /\ Enter(t, "add")
  /\ tindex[t].has
  /\ \E b \in Batches :
       /\ DictLen(METADATA_STORE) + Len(b) <= MaxKeys
       /\ Ntotal(tindex[t]) + Len(b) <= MaxVecs
       /\ aBatch' = [aBatch EXCEPT ![t] = b]
  /\ UNCHANGED <<lock, METADATA_STORE, disk, tindex, res, start_id, ntotal0, sIdx,
                 sMeta, lIdx, qv, topk, outs, saved>>

\* with index_lock: num_embeddings, start_id = len(METADATA_STORE), ids
AddAcquire(t) ==
  /\ UNCHANGED <<calls, issued, apart>>
  /\ Acquire(t, "add_lock", "add_meta")
  /\ start_id' = [start_id EXCEPT ![t] = DictLen(METADATA_STORE)]
  /\ ntotal0' = [ntotal0 EXCEPT ![t] = Ntotal(tindex[t])]
  /\ UNCHANGED <<METADATA_STORE, disk, fn, tindex, res, aBatch, sIdx, sMeta,
                 lIdx, qv, topk, outs, saved>>

\* for i, meta in zip(ids, metadata): METADATA_STORE[int(i)] = meta
AddMeta(t) ==
  /\ UNCHANGED <<calls, issued, apart>>
  /\ Goto(t, "add_meta", "add_append")
  /\ METADATA_STORE' = StoreWith(METADATA_STORE, start_id[t], aBatch[t])
  /\ UNCHANGED <<lock, disk, fn, tindex, res, callLocals, outs, saved>>

\* index.add(embeddings): appends the vectors or raises (wrong dimension,
\* wrong dtype, out of memory); the metadata written before stays
AddAppend(t) ==
  /\ UNCHANGED <<calls, issued, apart>>
  /\ pc[t] = "add_append"
  /\ \/ /\ tindex' = [tindex EXCEPT ![t] = NewIndex(tindex[t].vecs \o aBatch[t])]
        /\ pc' = [pc EXCEPT ![t] = "add_save"]
        /\ UNCHANGED res
     \/ /\ Finish(t, "AppendError")
        /\ UNCHANGED tindex
  /\ UNCHANGED <<lock, METADATA_STORE, disk, fn, callLocals, outs, saved>>

\* the two files written under the lock add already holds, then
\* `return ids.tolist()`
AddSave_Direct(t) ==
  /\ UNCHANGED <<calls, apart>>
  /\ pc[t] = "add_save"
  /\ fIndex' = Complete(tindex[t].vecs)
  /\ fMeta' = Complete(METADATA_STORE)
  /\ saved' = [ok |-> TRUE, idx |-> tindex[t].vecs, meta |-> METADATA_STORE]
  /\ ret' = [ret EXCEPT ![t] = Ids(t)]
  /\ issued' = issued \cup {Ids(t)[i] : i \in 1..Len(Ids(t))}
  /\ Finish(t, "ok")
  /\ UNCHANGED <<lock, METADATA_STORE, tmpIndex, tmpMeta, fn, tindex, callLocals,
                 sDist, sHits, sOut>>

\* save_index(index, METADATA_STORE), called with index_lock held
AddSave(t) ==
  /\ UNCHANGED <<calls, issued, apart>>
  /\ Goto(t, "add_save", "save_lock")
  /\ sIdx' = [sIdx EXCEPT ![t] = tindex[t]]
  /\ sMeta' = [sMeta EXCEPT ![t] = [alias |-> TRUE, val |-> EmptyDict]]
  /\ UNCHANGED <<lock, METADATA_STORE, disk, fn, tindex, res, aBatch, start_id, ntotal0, lIdx,
                 qv, topk, outs, saved>>

\* ---- search_index ---------------------------------------------------------
\* squared Euclidean distance of two one-coordinate vectors
Dist(v, q) == (v - q) * (v - q)

\* METADATA_STORE.get(idx, {}): 0 stands for the empty record {}
EmptyMeta == 0

get_metadata_by_id(idx) ==
  IF idx \in DOMAIN METADATA_STORE THEN METADATA_STORE[idx] ELSE EmptyMeta

\* index.search returning the neighbours in any order
Nearest_Unsorted(vecs, q, k) ==
  {h \in [1..k -> 0..(Len(vecs) - 1)] :
     /\ \A i, j \in 1..k : i < j => h[i] # h[j]
     /\ \A i \in 1..k : \A p \in 0..(Len(vecs) - 1) :
          (\A j \in 1..k : h[j] # p) => Dist(vecs[h[i] + 1], q) <= Dist(vecs[p + 1], q)}

\* the id lists index.search may return for k neighbours: k distinct
\* positions, nearest first, none farther than a position left out
Nearest(vecs, q, k) ==
  {h \in [1..k -> 0..(Len(vecs) - 1)] :
     /\ \A i, j \in 1..k : i < j => h[i] # h[j]
     /\ \A i, j \in 1..k : i < j => Dist(vecs[h[i] + 1], q) <= Dist(vecs[h[j] + 1], q)
     /\ \A i \in 1..k : \A p \in 0..(Len(vecs) - 1) :
          (\A j \in 1..k : h[j] # p) => Dist(vecs[h[i] + 1], q) <= Dist(vecs[p + 1], q)}

Min(a, b) == IF a <= b THEN a ELSE b

\* the distances index.search returns beside the ids; an id of -1 (no such
\* neighbour) comes with the distance 0 - 1, standing for the largest float
Distances(vecs, q, h) ==
  [i \in 1..Len(h) |-> IF h[i] < 0 THEN 0 - 1 ELSE Dist(vecs[h[i] + 1], q)]

SearchCall(t) ==
  /\ Enter(t, "search")
  /\ tindex[t].has
  /\ \E q \in Docs : qv' = [qv EXCEPT ![t] = q]
  /\ \E k \in 1..MaxK : topk' = [topk EXCEPT ![t] = k]
  /\ UNCHANGED <<lock, METADATA_STORE, disk, tindex, res, aBatch, start_id, ntotal0,
                 sIdx, sMeta, lIdx, outs, saved>>

\* search_index entered without `with index_lock:`
SearchAcquire_NoLock(t) ==
  /\ UNCHANGED <<calls, issued, apart>>
  /\ Goto(t, "search_lock", "search_chk")
  /\ UNCHANGED <<lock, METADATA_STORE, disk, fn, tindex, res, callLocals, outs, saved>>

SearchAcquire(t) ==
  /\ UNCHANGED <<calls, issued, apart>>
  /\ Acquire(t, "search_lock", "search_chk")
  /\ UNCHANGED <<METADATA_STORE, disk, fn, tindex, res, callLocals, outs, saved>>

\* if index.ntotal == 0: return [], [], []
SearchCheck(t) ==
  /\ UNCHANGED <<calls, issued, apart>>
  /\ pc[t] = "search_chk"
  /\ IF Ntotal(tindex[t]) = 0
       THEN Finish(t, "ok")
       ELSE /\ pc' = [pc EXCEPT ![t] = "search_nn"]
            /\ UNCHANGED res
  /\ UNCHANGED <<lock, METADATA_STORE, disk, fn, tindex, callLocals, outs, saved>>

\* distances, indices = index.search(query_embedding, min(top_k, index.ntotal))
\* index.search(query_embedding, top_k): top_k is not cut down to
\* index.ntotal, and faiss fills the places it has no neighbour for with -1
SearchLookup_Unclamped(t) ==
  /\ UNCHANGED <<calls, issued, apart>>
  /\ pc[t] = "search_nn"
  /\ \/ /\ \E h \in Nearest(tindex[t].vecs, qv[t], Min(topk[t], Ntotal(tindex[t]))) :
             LET padded == h \o [i \in 1..(topk[t] - Len(h)) |-> 0 - 1]
             IN  /\ sHits' = [sHits EXCEPT ![t] = padded]
                 /\ sDist' = [sDist EXCEPT ![t] = Distances(tindex[t].vecs, qv[t], padded)]
        /\ pc' = [pc EXCEPT ![t] = "search_join"]
        /\ UNCHANGED res
     \/ /\ Finish(t, "SearchError")
        /\ UNCHANGED <<sDist, sHits>>
  /\ UNCHANGED <<lock, METADATA_STORE, disk, fn, tindex, callLocals,
                 ret, sOut, saved>>

\* index.search raises when the query does not fit the index (dimension, dtype)
SearchLookup(t) ==
  /\ UNCHANGED <<calls, issued, apart>>
  /\ pc[t] = "search_nn"
  /\ \/ /\ \E h \in Nearest(tindex[t].vecs, qv[t], Min(topk[t], Ntotal(tindex[t]))) :
             /\ sHits' = [sHits EXCEPT ![t] = h]
             /\ sDist' = [sDist EXCEPT ![t] = Distances(tindex[t].vecs, qv[t], h)]
        /\ pc' = [pc EXCEPT ![t] = "search_join"]
        /\ UNCHANGED res
     \/ /\ Finish(t, "SearchError")
        /\ UNCHANGED <<sDist, sHits>>
  /\ UNCHANGED <<lock, METADATA_STORE, disk, fn, tindex, callLocals,
                 ret, sOut, saved>>

\* the join remembering the ids it did not find:
\* METADATA_STORE.setdefault(idx, {})
SearchJoin_Caching(t) ==
  /\ UNCHANGED <<calls, issued, apart>>
  /\ pc[t] = "search_join"
  /\ sOut' = [sOut EXCEPT ![t] =
                [i \in 1..Len(sHits[t]) |-> get_metadata_by_id(sHits[t][i])]]
  /\ METADATA_STORE' =
       [k \in (DOMAIN METADATA_STORE) \cup {sHits[t][i] : i \in 1..Len(sHits[t])} |->
          get_metadata_by_id(k)]
  /\ Finish(t, "ok")
  /\ UNCHANGED <<lock, disk, fn, tindex, callLocals, ret, sDist, sHits, saved>>

\* metadata_list = [get_metadata_by_id(idx) for idx in indices]; return
SearchJoin(t) ==
  /\ UNCHANGED <<calls, issued, apart>>
  /\ pc[t] = "search_join"
  /\ sOut' = [sOut EXCEPT ![t] =
                [i \in 1..Len(sHits[t]) |-> get_metadata_by_id(sHits[t][i])]]
  /\ Finish(t, "ok")
  /\ UNCHANGED <<lock, METADATA_STORE, disk, fn, tindex, callLocals, ret, sDist,
                 sHits, saved>>

\* ---- data_preprocessing.chunk_document -----------------------------------
\* A text is the list of its sentences as nltk.sent_tokenize returns them;
\* lens[s] is the word count of sentence s (a sentence has at least one word).
\* A word is <<s, i>>: the i-th word of sentence s.  current_chunk is the
\* sequence of its words, which is what every .split() of the code looks at.
Texts == UNION {[1..n -> 1..MaxSentLen] : n \in 0..MaxSents}

\* sentence.split()
Sent(lens, s) == [i \in 1..lens[s] |-> <<s, i>>]

\* the overlap taken from the head: words[:n]
LastWords_Head(words, n) == SubSeq(words, 1, Min(n, Len(words)))

\* words[-n:] for n > 0
LastWords(words, n) == SubSeq(words, Len(words) - Min(n, Len(words)) + 1, Len(words))

\* the test made on the sentence alone: len(sentence.split()) > max_chunk_size
TooLarge_SentenceOnly(cur, sent, max) == Len(sent) > max

\* len(current_chunk.split()) + len(sentence.split()) > max_chunk_size
TooLarge(cur, sent, max) == Len(cur) + Len(sent) > max

\* chunks = [], current_chunk = "".  Besides the two variables of the code the
\* run keeps two history fields: pre, the number of words at the head of
\* current_chunk that were carried over as overlap, and closed, every buffer
\* the loop has closed, appended to chunks or not.
ChunkStart == [chunks |-> <<>>, closed |-> <<>>, cur |-> <<>>, pre |-> 0]

\* a buffer as kept in chunks / closed
Buf(st) == [pre |-> st.pre, toks |-> st.cur]

\* the loop body with `current_chunk = " " + sentence` in the last branch
ChunkStep_Reset(st, sent, max, min, ov) ==
  IF TooLarge(st.cur, sent, max)
    THEN [chunks |-> IF Len(st.cur) >= min THEN Append(st.chunks, Buf(st))
                                           ELSE st.chunks,
          closed |-> Append(st.closed, Buf(st)),
          cur    |-> IF ov > 0 /\ st.cur # <<>>
                       THEN LastWords(st.cur, ov) \o sent ELSE sent,
          pre    |-> IF ov > 0 /\ st.cur # <<>> THEN Min(ov, Len(st.cur)) ELSE 0]
    ELSE [st EXCEPT !.cur = sent, !.pre = 0]

\* for sentence in sentences: one pass of the loop body
ChunkStep(st, sent, max, min, ov) ==
  IF TooLarge(st.cur, sent, max)
    THEN [chunks |-> IF Len(st.cur) >= min THEN Append(st.chunks, Buf(st))
                                           ELSE st.chunks,
          closed |-> Append(st.closed, Buf(st)),
          cur    |-> IF ov > 0 /\ st.cur # <<>>
                       THEN LastWords(st.cur, ov) \o sent ELSE sent,
          pre    |-> IF ov > 0 /\ st.cur # <<>> THEN Min(ov, Len(st.cur)) ELSE 0]
    ELSE [st EXCEPT !.cur = st.cur \o sent]

RECURSIVE ChunkLoop(_, _, _, _, _, _)
ChunkLoop(st, lens, s, max, min, ov) ==
  IF s > Len(lens) THEN st
  ELSE ChunkLoop(ChunkStep(st, Sent(lens, s), max, min, ov), lens, s + 1, max, min, ov)

\* the last buffer appended without the test of min_chunk_size
ChunkEnd_NoMin(st, min) ==
  [chunks |-> IF st.cur # <<>> THEN Append(st.chunks, Buf(st)) ELSE st.chunks,
   closed |-> IF st.cur # <<>> THEN Append(st.closed, Buf(st)) ELSE st.closed,
   cur    |-> st.cur,
   pre    |-> st.pre]

\* if current_chunk and len(current_chunk.split()) >= min_chunk_size: append
ChunkEnd(st, min) ==
  [chunks |-> IF st.cur # <<>> /\ Len(st.cur) >= min THEN Append(st.chunks, Buf(st))
                                                     ELSE st.chunks,
   closed |-> IF st.cur # <<>> THEN Append(st.closed, Buf(st)) ELSE st.closed,
   cur    |-> st.cur,
   pre    |-> st.pre]

\* chunk_document(text, max_chunk_size, min_chunk_size, overlap): the list it
\* returns is the chunks field of the final run
chunk_document(lens, max, min, ov) ==
  ChunkEnd(ChunkLoop(ChunkStart, lens, 1, max, min, ov), min)

\* the arguments of one call
ChunkInit ==
  /\ MemInit
  /\ fIndex = Absent /\ fMeta = Absent
  /\ RetrieveIdle
  /\ cPc = "input"
  /\ cSents \in Texts
  /\ cMax \in 1..MaxChunk
  /\ cMin \in 0..MaxChunk
  /\ cOv \in 0..MaxOverlap
  /\ cRun = NoRun
  /\ IngestOff
  /\ AskOff

\* the call runs to its return statement
ChunkCall ==
  /\ cPc = "input"
  /\ cPc' = "done"
  /\ cRun' = chunk_document(cSents, cMax, cMin, cOv)
  /\ UNCHANGED <<cSents, cMax, cMin, cOv>>
  /\ UNCHANGED <<storeVars, dbVars, handed, given, hostVars>>

ChunkSpec == ChunkInit /\ [][ChunkCall]_vars

\* ---- retrieval.retrieve_relevant_chunks ------------------------------------
\* The files a query can find on disk: an index of up to MaxStored vectors
\* and a metadata dict of up to MaxStored entries (id k describes chunk k + 1),
\* written by earlier
\* save_index calls (the two need not match: the files are replaced one after
\* the other), or no files at all.  save_index replaces the index file first,
\* so a metadata file never stands without an index file.
StoredIndexes == UNION {[1..n -> Docs] : n \in 0..MaxStored}

StoredMetas == {[k \in 0..(n - 1) |-> k + 1] : n \in 0..MaxStored}

QueryInit ==
  /\ MemInit
  /\ fIndex \in {Absent} \cup {Complete(v) : v \in StoredIndexes}
  /\ fMeta \in {Absent} \cup {Complete(m) : m \in StoredMetas}
  /\ Exists(fMeta) => Exists(fIndex)
  /\ RetrieveIdle
  /\ ChunkOff
  /\ IngestOff
  /\ AskOff

\* db = next(get_db()); db.add(query_record); db.flush(); query_embedding =
\* embedding_model.encode([query]).  The flush or the encoder may raise;
\* otherwise the next statement is index = load_index().  dbPending counts the
\* Query row; the QueryChunk rows added later share its fate.  iEmb records
\* that the encoder has returned the embedding this call works with.
RetrieveCall(t) ==
  /\ pc[t] = "idle"
  /\ rpc[t] = "none"
  /\ ipc[t] = "none"
  /\ dbPending' = [dbPending EXCEPT ![t] = 1]
  /\ \/ /\ rpc' = [rpc EXCEPT ![t] = "load"]
        /\ iEmb' = [iEmb EXCEPT ![t] = TRUE]
        /\ UNCHANGED rerr
     \/ /\ rpc' = [rpc EXCEPT ![t] = "except"]
        /\ \E e \in {"DBError", "EmbedError"} : rerr' = [rerr EXCEPT ![t] = e]
        /\ UNCHANGED iEmb
  /\ UNCHANGED <<found, rret, nCommit, nRollback, dbLogged>>
  /\ UNCHANGED <<dataDir, dbDocs, iTries, iNext, iNew, iChunks, iRolled, iAfter, onceOk>>
  /\ UNCHANGED <<storeVars, chunkVars, given, llmVars, apiVars>>

\* index = load_index()
RetrieveLoad(t) ==
  /\ rpc[t] = "load"
  /\ LoadCall(t)

\* distances, indices, retrieved_metadata = search_index(index, query_embedding,
\* top_k=MAX_RETRIEVED_CHUNKS)
RetrieveSearch(t) ==
  /\ rpc[t] = "search"
  /\ SearchCall(t)

\* the except clause returning an empty list instead of raising
RetrieveExcept_Swallow(t) ==
  /\ rpc[t] = "except"
  /\ rpc' = [rpc EXCEPT ![t] = "done"]
  /\ dbPending' = [dbPending EXCEPT ![t] = 0]
  /\ nRollback' = [nRollback EXCEPT ![t] = @ + 1]
  /\ rret' = [rret EXCEPT ![t] = <<>>]
  /\ UNCHANGED <<rerr, found, nCommit, dbLogged>>
  /\ UNCHANGED <<storeVars, chunkVars, given, hostVars>>

\* except Exception: db.rollback(); raise
RetrieveExcept(t) ==
  /\ rpc[t] = "except"
  /\ rpc' = [rpc EXCEPT ![t] = "raised"]
  /\ dbPending' = [dbPending EXCEPT ![t] = 0]
  /\ nRollback' = [nRollback EXCEPT ![t] = @ + 1]
  /\ UNCHANGED <<rerr, found, rret, nCommit, dbLogged>>
  /\ UNCHANGED <<storeVars, chunkVars, given, hostVars>>

\* the commit made although the session is to be rolled back
RetrieveCommit_Early(t) ==
  /\ rpc[t] = "record"
  /\ \/ /\ rpc' = [rpc EXCEPT ![t] = "done"]
        /\ dbLogged' = [dbLogged EXCEPT ![t] = TRUE]
        /\ dbPending' = [dbPending EXCEPT ![t] = 0]
        /\ nCommit' = [nCommit EXCEPT ![t] = @ + 1]
        /\ rret' = [rret EXCEPT ![t] = rout[t]]
        /\ UNCHANGED rerr
     \/ /\ rpc' = [rpc EXCEPT ![t] = "except"]
        /\ rerr' = [rerr EXCEPT ![t] = "DBError"]
        /\ dbLogged' = [dbLogged EXCEPT ![t] = TRUE]
        /\ nCommit' = [nCommit EXCEPT ![t] = @ + 1]
        /\ UNCHANGED <<dbPending, rret>>
  /\ UNCHANGED <<found, nRollback, storeVars, chunkVars, given, hostVars>>

\* the loop that records a QueryChunk per hit; db.commit(); return
\* retrieved_metadata -- or the database raises
RetrieveCommit(t) ==
  /\ rpc[t] = "record"
  /\ \/ /\ rpc' = [rpc EXCEPT ![t] = "done"]
        /\ dbLogged' = [dbLogged EXCEPT ![t] = TRUE]
        /\ dbPending' = [dbPending EXCEPT ![t] = 0]
        /\ nCommit' = [nCommit EXCEPT ![t] = @ + 1]
        /\ rret' = [rret EXCEPT ![t] = rout[t]]
        /\ UNCHANGED rerr
     \/ /\ rpc' = [rpc EXCEPT ![t] = "except"]
        /\ rerr' = [rerr EXCEPT ![t] = "DBError"]
        /\ UNCHANGED <<dbLogged, dbPending, nCommit, rret>>
  /\ UNCHANGED <<found, nRollback, storeVars, chunkVars, given, hostVars>>

\* finally: db.close(); the caller has the list or the exception, and the
\* local variable index is gone
RetrieveEnd(t) ==
  /\ rpc[t] \in {"done", "raised"}
  /\ rpc' = [rpc EXCEPT ![t] = "none"]
  /\ rerr' = [rerr EXCEPT ![t] = "none"]
  /\ rdist' = [rdist EXCEPT ![t] = <<>>]
  /\ rhits' = [rhits EXCEPT ![t] = <<>>]
  /\ rout' = [rout EXCEPT ![t] = <<>>]
  /\ rret' = [rret EXCEPT ![t] = <<>>]
  /\ dbPending' = [dbPending EXCEPT ![t] = 0]
  /\ nCommit' = [nCommit EXCEPT ![t] = 0]
  /\ nRollback' = [nRollback EXCEPT ![t] = 0]
  /\ dbLogged' = [dbLogged EXCEPT ![t] = FALSE]
  /\ tindex' = [tindex EXCEPT ![t] = NoIndex]
  /\ epc' = [epc EXCEPT ![t] = IF @ = "retrieve" THEN "got" ELSE @]
  /\ echunks' = [echunks EXCEPT ![t] =
                   IF epc[t] = "retrieve" /\ rpc[t] = "done" THEN rret[t] ELSE @]
  /\ eerr' = [eerr EXCEPT ![t] =
                IF epc[t] = "retrieve" /\ rpc[t] = "raised" THEN rerr[t] ELSE @]
  /\ iEmb' = [iEmb EXCEPT ![t] = FALSE]
  /\ UNCHANGED <<dataDir, dbDocs, iTries, iNext, iNew, iChunks, iRolled, iAfter, onceOk>>
  /\ UNCHANGED <<lock, METADATA_STORE, disk, pc, fn, res, callLocals, outs, calls,
                 issued, saved, chunkVars, given, llmVars, eans, askVars>>

\* a thread serves queries: retrieve_relevant_chunks and the steps of the
\* load_index and search_index calls it makes
QueryStep(t) ==
  \/ RetrieveCall(t) \/ RetrieveLoad(t)
  \/ LoadAcquire(t) \/ LoadCheck(t) \/ LoadReadIndex(t) \/ LoadReadMeta(t)
  \/ RetrieveSearch(t)
  \/ SearchAcquire(t) \/ SearchCheck(t) \/ SearchLookup(t) \/ SearchJoin(t)
  \/ Return(t)
  \/ RetrieveCommit(t) \/ RetrieveExcept(t) \/ RetrieveEnd(t)

\* the threads that serve queries
Queriers == 1..NumQueriers

QueryNext == \E t \in Queriers : QueryStep(t)

QuerySpec == QueryInit /\ [][QueryNext]_vars

\* ---- data_preprocessing.preprocess_and_index_documents ---------------------
\* @retry(stop=stop_after_attempt(3), ...) on load_embedding_model
EmbedAttempts == 3

\* The data directory holds up to NumDocs text files.  chunk_document makes no
\* chunk of a "short" file and one chunk of a "long" file; the chunk of file f
\* is chunk f, and its embedding is the vector f.  The documents table may hold
\* rows that earlier runs committed, and the index files may hold the vectors
\* of documents 1..n, each recorded in the table.  A run indexes all its chunks
\* in one add_documents_to_index call, so at most MaxBatch long files are not
\* yet recorded.
FileKinds == {"absent", "short", "long"}

IngestInit ==
  /\ MemInit
  /\ RetrieveIdle
  /\ ChunkOff
  /\ IngestIdle
  /\ AskOff
  /\ dataDir \in [Docs -> FileKinds]
  /\ dbDocs \in SUBSET Docs
  /\ Cardinality({f \in Docs : dataDir[f] = "long" /\ f \notin dbDocs}) <= MaxBatch
  /\ \/ fIndex = Absent /\ fMeta = Absent
     \/ \E n \in 0..Min(MaxStored, NumDocs) :
          /\ fIndex = Complete([i \in 1..n |-> i])
          /\ fMeta = Complete([k \in 0..(n - 1) |-> k + 1])
          /\ 1..n \subseteq dbDocs

\* the element of docs the loop looks at next (glob lists the files in the
\* order of their names); 0 when the loop is over
NextDoc(t) ==
  IF \E f \in iNext[t]..NumDocs : dataDir[f] # "absent"
    THEN CHOOSE f \in iNext[t]..NumDocs :
           /\ dataDir[f] # "absent"
           /\ \A g \in iNext[t]..(f - 1) : dataDir[g] = "absent"
    ELSE 0

\* create_tables(); db = next(get_db()); docs = load_documents(); `if not
\* docs: return`.  create_tables stands before the try statement: what it
\* raises reaches the caller without a rollback.
IngestCall(t) ==
  /\ pc[t] = "idle" /\ rpc[t] = "none" /\ ipc[t] = "none"
  /\ iAfter' = [iAfter EXCEPT ![t] = onceOk]
  /\ \/ /\ ipc' = [ipc EXCEPT ![t] = "raised"]
        /\ ierr' = [ierr EXCEPT ![t] = "DBError"]
     \/ /\ ipc' = [ipc EXCEPT ![t] =
                     IF \A f \in Docs : dataDir[f] = "absent" THEN "done" ELSE "model"]
        /\ UNCHANGED ierr
  /\ UNCHANGED <<iIds, dataDir, dbDocs, iTries, iNext, iNew, iChunks, iEmb, iRolled, onceOk>>
  /\ UNCHANGED <<storeVars, chunkVars, dbVars, handed, llmVars, apiVars>>

\* model = load_embedding_model(): one attempt of the retrying wrapper.  The
\* attempt returns the model, or raises; after the attempt number
\* EmbedAttempts the wrapper gives up and raises
IngestModel(t) ==
  /\ ipc[t] = "model"
  /\ iTries' = [iTries EXCEPT ![t] = @ + 1]
  /\ \/ /\ ipc' = [ipc EXCEPT ![t] = "scan"]
        /\ UNCHANGED ierr
     \/ /\ ipc' = [ipc EXCEPT ![t] = IF iTries[t] + 1 >= EmbedAttempts THEN "except" ELSE "model"]
        /\ ierr' = [ierr EXCEPT ![t] = IF iTries[t] + 1 >= EmbedAttempts THEN "RetryError" ELSE @]
  /\ UNCHANGED <<iIds, dataDir, dbDocs, iNext, iNew, iChunks, iEmb, iRolled, iAfter, onceOk>>
  /\ UNCHANGED <<storeVars, chunkVars, dbVars, handed, llmVars, apiVars>>

\* the loop body with the test of existing_doc left out
IngestDoc_NoSkip(t) ==
  /\ ipc[t] = "scan"
  /\ NextDoc(t) # 0
  /\ LET f == NextDoc(t)
     IN  \/ /\ \A u \in Threads \ {t} : f \notin iNew[u]
            /\ iNew' = [iNew EXCEPT ![t] = @ \cup {f}]
            /\ iChunks' = [iChunks EXCEPT ![t] =
                             IF dataDir[f] = "long" THEN Append(@, f) ELSE @]
            /\ iNext' = [iNext EXCEPT ![t] = f + 1]
            /\ UNCHANGED <<ipc, ierr>>
         \/ /\ ipc' = [ipc EXCEPT ![t] = "except"]
            /\ ierr' = [ierr EXCEPT ![t] = "DBError"]
            /\ UNCHANGED <<iNext, iNew, iChunks>>
  /\ UNCHANGED <<iIds, dataDir, dbDocs, iTries, iEmb, iRolled, iAfter, onceOk>>
  /\ UNCHANGED <<storeVars, chunkVars, dbVars, handed, llmVars, apiVars>>

\* for doc_data in docs: one pass of the loop body.  The query sees the
\* committed rows and the rows of its own session; a document found there is
\* skipped.  Otherwise db.add(new_doc); db.flush() inserts the row, which waits
\* while another open transaction holds a row of the same file_path (unique) and
\* may raise; then chunk_document and the chunk rows.
IngestDoc(t) ==
  /\ ipc[t] = "scan"
  /\ NextDoc(t) # 0
  /\ LET f == NextDoc(t)
     IN  IF f \in dbDocs \cup iNew[t]
           THEN /\ iNext' = [iNext EXCEPT ![t] = f + 1]
                /\ UNCHANGED <<ipc, ierr, iNew, iChunks>>
           ELSE \/ /\ \A u \in Threads \ {t} : f \notin iNew[u]
                   /\ iNew' = [iNew EXCEPT ![t] = @ \cup {f}]
                   /\ iChunks' = [iChunks EXCEPT ![t] =
                                    IF dataDir[f] = "long" THEN Append(@, f) ELSE @]
                   /\ iNext' = [iNext EXCEPT ![t] = f + 1]
                   /\ UNCHANGED <<ipc, ierr>>
                \/ /\ ipc' = [ipc EXCEPT ![t] = "except"]
                   /\ ierr' = [ierr EXCEPT ![t] = "DBError"]
                   /\ UNCHANGED <<iNext, iNew, iChunks>>
  /\ UNCHANGED <<iIds, dataDir, dbDocs, iTries, iEmb, iRolled, iAfter, onceOk>>
  /\ UNCHANGED <<storeVars, chunkVars, dbVars, handed, llmVars, apiVars>>

\* the statement after the loop with create_faiss_index called before encode
IngestEmbed_Late(t) ==
  /\ ipc[t] = "scan"
  /\ NextDoc(t) = 0
  /\ ipc' = [ipc EXCEPT ![t] = IF iChunks[t] = <<>> THEN "commit" ELSE "create"]
  /\ UNCHANGED <<ierr, iEmb>>
  /\ UNCHANGED <<iIds, dataDir, dbDocs, iTries, iNext, iNew, iChunks, iRolled, iAfter, onceOk>>
  /\ UNCHANGED <<storeVars, chunkVars, dbVars, handed, llmVars, apiVars>>

\* `if chunks:` embeddings = model.encode(chunks), which may raise; with no
\* chunks the next statement is db.commit()
IngestEmbed(t) ==
  /\ ipc[t] = "scan"
  /\ NextDoc(t) = 0
  /\ IF iChunks[t] = <<>>
       THEN /\ ipc' = [ipc EXCEPT ![t] = "commit"]
            /\ UNCHANGED <<ierr, iEmb>>
       ELSE \/ /\ ipc' = [ipc EXCEPT ![t] = "create"]
               /\ iEmb' = [iEmb EXCEPT ![t] = TRUE]
               /\ UNCHANGED ierr
            \/ /\ ipc' = [ipc EXCEPT ![t] = "except"]
               /\ ierr' = [ierr EXCEPT ![t] = "EmbedError"]
               /\ UNCHANGED iEmb
  /\ UNCHANGED <<iIds, dataDir, dbDocs, iTries, iNext, iNew, iChunks, iRolled, iAfter, onceOk>>
  /\ UNCHANGED <<storeVars, chunkVars, dbVars, handed, llmVars, apiVars>>

\* index = create_faiss_index(embeddings.shape[1])
IngestCreate(t) ==
  /\ ipc[t] = "create"
  /\ CreateCall(t)

\* vector_ids = add_documents_to_index(index, embeddings, metadata)
IngestAdd(t) ==
  /\ ipc[t] = "add"
  /\ Enter(t, "add")
  /\ DictLen(METADATA_STORE) + Len(iChunks[t]) <= MaxKeys
  /\ aBatch' = [aBatch EXCEPT ![t] = iChunks[t]]
  /\ UNCHANGED <<lock, METADATA_STORE, disk, tindex, res, start_id, ntotal0, sIdx,
                 sMeta, lIdx, qv, topk, outs, saved>>

\* the loop that writes vector_ids into the chunk rows; db.commit(), which
\* makes the rows of the session visible or raises
IngestCommit(t) ==
  /\ ipc[t] = "commit"
  /\ \/ /\ ipc' = [ipc EXCEPT ![t] = "done"]
        /\ dbDocs' = dbDocs \cup iNew[t]
        /\ iNew' = [iNew EXCEPT ![t] = {}]
        /\ UNCHANGED ierr
     \/ /\ ipc' = [ipc EXCEPT ![t] = "except"]
        /\ ierr' = [ierr EXCEPT ![t] = "DBError"]
        /\ UNCHANGED <<dbDocs, iNew>>
  /\ UNCHANGED <<iIds, dataDir, iTries, iNext, iChunks, iEmb, iRolled, iAfter, onceOk>>
  /\ UNCHANGED <<storeVars, chunkVars, dbVars, handed, llmVars, apiVars>>

\* except Exception: db.rollback(); raise
IngestExcept(t) ==
  /\ ipc[t] = "except"
  /\ ipc' = [ipc EXCEPT ![t] = "raised"]
  /\ iNew' = [iNew EXCEPT ![t] = {}]
  /\ iRolled' = [iRolled EXCEPT ![t] = TRUE]
  /\ UNCHANGED <<ierr, iIds, dataDir, dbDocs, iTries, iNext, iChunks, iEmb, iAfter, onceOk>>
  /\ UNCHANGED <<storeVars, chunkVars, dbVars, handed, llmVars, apiVars>>

\* finally: db.close(), which ends a transaction still open; the run is over
\* and its local variables are gone
IngestEnd(t) ==
  /\ ipc[t] \in {"done", "raised"}
  /\ onceOk' = (onceOk \/ ipc[t] = "done")
  /\ ipc' = [ipc EXCEPT ![t] = "none"]
  /\ ierr' = [ierr EXCEPT ![t] = "none"]
  /\ iIds' = [iIds EXCEPT ![t] = <<>>]
  /\ iTries' = [iTries EXCEPT ![t] = 0]
  /\ iNext' = [iNext EXCEPT ![t] = 1]
  /\ iNew' = [iNew EXCEPT ![t] = {}]
  /\ iChunks' = [iChunks EXCEPT ![t] = <<>>]
  /\ iEmb' = [iEmb EXCEPT ![t] = FALSE]
  /\ iRolled' = [iRolled EXCEPT ![t] = FALSE]
  /\ iAfter' = [iAfter EXCEPT ![t] = FALSE]
  /\ tindex' = [tindex EXCEPT ![t] = NoIndex]
  /\ UNCHANGED <<dataDir, dbDocs>>
  /\ UNCHANGED <<lock, METADATA_STORE, disk, pc, fn, res, callLocals, outs, calls,
                 issued, saved, chunkVars, dbVars, handed, llmVars, apiVars>>

\* the steps of preprocess_and_index_documents itself
IngestOwn(t) ==
  \/ IngestCall(t) \/ IngestModel(t) \/ IngestDoc(t) \/ IngestEmbed(t)
  \/ IngestCreate(t) \/ IngestAdd(t)
  \/ IngestCommit(t) \/ IngestExcept(t) \/ IngestEnd(t)

\* the steps of the create_faiss_index and add_documents_to_index calls it
\* makes.  Both call a function that waits for index_lock while the caller
\* holds it (load_index, save_index), so no step of those two follows.
IngestCalls(t) ==
  \/ CreateAcquire(t) \/ CreateBody(t)
  \/ AddAcquire(t) \/ AddMeta(t) \/ AddAppend(t) \/ AddSave(t)
  \/ Return(t)

IngestStep(t) == IngestOwn(t) \/ IngestCalls(t)

IngestNext == \E t \in Threads : IngestStep(t)

IngestSpec == IngestInit /\ [][IngestNext]_vars

\* a thread inside a run eventually takes the next step the run can take
FairIngestSpec == IngestSpec /\ \A t \in Threads : WF_vars(IngestStep(t) /\ ipc[t] # "none")

\* ---- llm_integration -------------------------------------------------------
\* @retry(stop=stop_after_attempt(3), ...) on initialize_generator
GeneratorAttempts == 3

\* What the language model writes is a sequence of symbols: an opening brace,
\* a closing brace, or "x" for any other run of characters.
Symbols == {"{", "}", "x"}

Completions == UNION {[1..n -> Symbols] : n \in 0..MaxText}

\* the prompt of generate_structured_response: instructions around a JSON
\* template in braces
Prompt == <<"x", "{", "x", "}", "x">>

\* response[0]["generated_text"]: the prompt followed by the completion, or a
\* text that does not begin with the prompt
GeneratedTexts == {Prompt \o c : c \in Completions} \cup Completions

\* generated_text.startswith(prompt)
StartsWith(text, prefix) ==
  Len(text) >= Len(prefix) /\ SubSeq(text, 1, Len(prefix)) = prefix

\* extract_response(generated_text, prompt); strip() removes white space only
extract_response(text, prompt) ==
  IF StartsWith(text, prompt) THEN SubSeq(text, Len(prompt) + 1, Len(text)) ELSE text

\* str.find(c): the first position of c counted from 0, or -1
Find(text, c) ==
  IF \E i \in 1..Len(text) : text[i] = c
    THEN (CHOOSE i \in 1..Len(text) : text[i] = c /\ \A j \in 1..(i - 1) : text[j] # c) - 1
    ELSE 0 - 1

\* str.rfind(c): the last position of c counted from 0, or -1
RFind(text, c) ==
  IF \E i \in 1..Len(text) : text[i] = c
    THEN (CHOOSE i \in 1..Len(text) : text[i] = c /\ \A j \in (i + 1)..Len(text) : text[j] # c) - 1
    ELSE 0 - 1

\* json.loads(json_str) succeeds: of the texts these symbols spell, "{" "}" is
\* the one JSON document
JsonLoads(str) == str = <<"{", "}">>

\* the inner try block of generate_structured_response: start_idx, end_idx,
\* json_str = extracted_response[start_idx:end_idx], json.loads
ParseJson(ext) ==
  LET start_idx == Find(ext, "{")
      end_idx   == RFind(ext, "}") + 1
  IN  IF start_idx >= 0 /\ end_idx > start_idx
        THEN IF JsonLoads(SubSeq(ext, start_idx + 1, end_idx)) THEN "parsed"
                                                              ELSE "JSONDecodeError"
        ELSE "no_json"

\* the lists of chunk records a caller may pass as retrieved_chunks
ChunkLists == UNION {[1..n -> Docs \cup {EmptyMeta}] : n \in 0..MaxK}

\* what generate_response returns: the cleaned text of the model or the apology
Answer(q, ch) == [kind |-> "answer", q |-> q, ch |-> ch, err |-> "none"]

Apology(q, ch, e) == [kind |-> "apology", q |-> q, ch |-> ch, err |-> e]

\* the literal "Error generating response"
ErrorText == [kind |-> "literal", q |-> 0, ch |-> <<>>, err |-> "none"]

\* The outcomes of get_generator().  The one defined after a successful import
\* returns generator.  The one defined after a failed import tests `generator
\* is None`: the name was never bound, so reading it raises NameError; were it
\* None, initialize_generator would be called, and give the generator or give
\* up.
GetGenerator ==
  IF getter = "pass"
    THEN {[err |-> "none", gen |-> generator, tried |-> FALSE]}
    ELSE IF generator = "unbound"
      THEN {[err |-> "NameError", gen |-> generator, tried |-> FALSE]}
      ELSE IF generator = "none"
        THEN {[err |-> "none", gen |-> "ready", tried |-> TRUE],
              [err |-> "RetryError", gen |-> "none", tried |-> TRUE]}
        ELSE {[err |-> "none", gen |-> generator, tried |-> FALSE]}

\* the body of generate_response once get_generator has had outcome g: the
\* apology when get_generator or the model raised, the answer otherwise
Responses(q, ch, g) ==
  IF g.err # "none" THEN {Apology(q, ch, g.err)}
  ELSE {Answer(q, ch), Apology(q, ch, "GenerationError")}

\* the import has made one attempt too many before it gives up
ImportAttempt_OneMore ==
  /\ gpc = "import"
  /\ gTries' = gTries + 1
  /\ \/ /\ generator' = "ready" /\ getter' = "pass" /\ gpc' = "up"
     \/ /\ IF gTries + 1 > GeneratorAttempts
             THEN getter' = "on_demand" /\ gpc' = "up"
             ELSE UNCHANGED <<getter, gpc>>
        /\ UNCHANGED generator
  /\ UNCHANGED <<gDemand, lpc, lfn, lq, lch, ltext, lres, lfb, apiVars>>
  /\ UNCHANGED <<storeVars, chunkVars, dbVars, handed, given, ingestVars>>

\* import of llm_integration: one attempt of `generator =
\* initialize_generator()` under the retrying wrapper.  A successful attempt
\* binds generator and the pass-through get_generator is defined.  After the
\* attempt number GeneratorAttempts the wrapper raises, the except clause
\* defines the other get_generator, and generator stays unbound.
ImportAttempt ==
  /\ gpc = "import"
  /\ gTries' = gTries + 1
  /\ \/ /\ generator' = "ready" /\ getter' = "pass" /\ gpc' = "up"
     \/ /\ IF gTries + 1 >= GeneratorAttempts
             THEN getter' = "on_demand" /\ gpc' = "up"
             ELSE UNCHANGED <<getter, gpc>>
        /\ UNCHANGED generator
  /\ UNCHANGED <<gDemand, lpc, lfn, lq, lch, ltext, lres, lfb, apiVars>>
  /\ UNCHANGED <<storeVars, chunkVars, dbVars, handed, given, ingestVars>>

\* thread t may call f: the module is imported, t is in no other call, and
\* when t serves a query the endpoint is at its call of f
MayGenerate(t, structured) ==
  /\ gpc = "up"
  /\ pc[t] = "idle" /\ rpc[t] = "none" /\ ipc[t] = "none" /\ lpc[t] = "none"
  /\ epc[t] \in {"none", "generate"}
  /\ epc[t] = "generate" => estruct[t] = structured

\* the arguments of the call: those of the endpoint, or any
CallArgs(t) ==
  IF epc[t] = "generate" THEN {<<eq[t], echunks[t]>>} ELSE Docs \X ChunkLists

\* generate_response(query, retrieved_chunks)
GenerateResponse(t) ==
  /\ MayGenerate(t, FALSE)
  /\ \E a \in CallArgs(t) : \E g \in GetGenerator :
       /\ lq' = [lq EXCEPT ![t] = a[1]]
       /\ lch' = [lch EXCEPT ![t] = a[2]]
       /\ generator' = g.gen
       /\ gDemand' = (gDemand \/ g.tried)
       /\ \E r \in Responses(a[1], a[2], g) :
            lres' = [lres EXCEPT ![t] = [kind |-> "text", err |-> "none", raw |-> r]]
  /\ lpc' = [lpc EXCEPT ![t] = "ret"]
  /\ lfn' = [lfn EXCEPT ![t] = "generate_response"]
  /\ UNCHANGED <<gpc, gTries, getter, ltext, lfb, apiVars>>
  /\ UNCHANGED <<storeVars, chunkVars, dbVars, handed, given, ingestVars>>

\* generate_structured_response with a JSONDecodeError that the inner except
\* clause does not catch
GenerateStructured_DecodeUncaught(t) ==
  /\ MayGenerate(t, TRUE)
  /\ lfn' = [lfn EXCEPT ![t] = "generate_structured_response"]
  /\ \E a \in CallArgs(t) : \E g \in GetGenerator :
       /\ lq' = [lq EXCEPT ![t] = a[1]]
       /\ lch' = [lch EXCEPT ![t] = a[2]]
       /\ generator' = g.gen
       /\ gDemand' = (gDemand \/ g.tried)
       /\ \/ /\ lres' = [lres EXCEPT ![t] =
                           [kind |-> "error_record",
                            err |-> IF g.err # "none" THEN g.err ELSE "GenerationError",
                            raw |-> ErrorText]]
             /\ lpc' = [lpc EXCEPT ![t] = "ret"]
             /\ UNCHANGED ltext
          \/ /\ g.err = "none"
             /\ \E text \in GeneratedTexts :
                  /\ ltext' = [ltext EXCEPT ![t] = <<text>>]
                  /\ LET how == ParseJson(extract_response(text, Prompt))
                     IN  IF how = "parsed"
                           THEN /\ lres' = [lres EXCEPT ![t] =
                                              [kind |-> "parsed", err |-> "none", raw |-> NoText]]
                                /\ lpc' = [lpc EXCEPT ![t] = "ret"]
                           ELSE IF how = "JSONDecodeError"
                             THEN /\ lres' = [lres EXCEPT ![t] =
                                                [kind |-> "error_record", err |-> how,
                                                 raw |-> ErrorText]]
                                  /\ lpc' = [lpc EXCEPT ![t] = "ret"]
                             ELSE /\ lpc' = [lpc EXCEPT ![t] = "fallback"]
                                  /\ UNCHANGED lres
  /\ UNCHANGED <<gpc, gTries, getter, lfb, apiVars>>
  /\ UNCHANGED <<storeVars, chunkVars, dbVars, handed, given, ingestVars>>

\* generate_structured_response(query, retrieved_chunks) up to the parse.
\* get_generator or the model raises: the outer except clause returns the
\* record with str(e) and the literal.  Otherwise the text is parsed: the
\* parsed object is returned, or the call goes on to generate_response.
GenerateStructured(t) ==
  /\ MayGenerate(t, TRUE)
  /\ lfn' = [lfn EXCEPT ![t] = "generate_structured_response"]
  /\ \E a \in CallArgs(t) : \E g \in GetGenerator :
       /\ lq' = [lq EXCEPT ![t] = a[1]]
       /\ lch' = [lch EXCEPT ![t] = a[2]]
       /\ generator' = g.gen
       /\ gDemand' = (gDemand \/ g.tried)
       /\ \/ /\ lres' = [lres EXCEPT ![t] =
                           [kind |-> "error_record",
                            err |-> IF g.err # "none" THEN g.err ELSE "GenerationError",
                            raw |-> ErrorText]]
             /\ lpc' = [lpc EXCEPT ![t] = "ret"]
             /\ UNCHANGED ltext
          \/ /\ g.err = "none"
             /\ \E text \in GeneratedTexts :
                  /\ ltext' = [ltext EXCEPT ![t] = <<text>>]
                  /\ IF ParseJson(extract_response(text, Prompt)) = "parsed"
                       THEN /\ lres' = [lres EXCEPT ![t] =
                                          [kind |-> "parsed", err |-> "none", raw |-> NoText]]
                            /\ lpc' = [lpc EXCEPT ![t] = "ret"]
                       ELSE /\ lpc' = [lpc EXCEPT ![t] = "fallback"]
                            /\ UNCHANGED lres
  /\ UNCHANGED <<gpc, gTries, getter, lfb, apiVars>>
  /\ UNCHANGED <<storeVars, chunkVars, dbVars, handed, given, ingestVars>>

\* the error marker of the record returned for a text that did not parse
Marker(how) == IF how = "no_json" THEN "Invalid JSON format" ELSE "JSON parsing error"

\* return {"error": ..., "raw_response": generate_response(query,
\* retrieved_chunks)}, in the else branch or in the except clause of the
\* inner try
Fallback(t) ==
  /\ lpc[t] = "fallback"
  /\ lpc' = [lpc EXCEPT ![t] = "ret"]
  /\ lfb' = [lfb EXCEPT ![t] = Append(@, <<lq[t], lch[t]>>)]
  /\ \E g \in GetGenerator :
       /\ generator' = g.gen
       /\ gDemand' = (gDemand \/ g.tried)
       /\ \E r \in Responses(lq[t], lch[t], g) :
            lres' = [lres EXCEPT ![t] =
                       [kind |-> "error_record",
                        err |-> Marker(ParseJson(extract_response(ltext[t][1], Prompt))),
                        raw |-> r]]
  /\ UNCHANGED <<gpc, gTries, getter, lfn, lq, lch, ltext, apiVars>>
  /\ UNCHANGED <<storeVars, chunkVars, dbVars, handed, given, ingestVars>>

\* the call returns: the caller has the value; query_endpoint binds it to
\* answer
LlmReturn(t) ==
  /\ lpc[t] = "ret"
  /\ lpc' = [lpc EXCEPT ![t] = "none"]
  /\ lfn' = [lfn EXCEPT ![t] = "none"]
  /\ lq' = [lq EXCEPT ![t] = 0]
  /\ lch' = [lch EXCEPT ![t] = <<>>]
  /\ ltext' = [ltext EXCEPT ![t] = <<>>]
  /\ lres' = [lres EXCEPT ![t] = NoAnswer]
  /\ lfb' = [lfb EXCEPT ![t] = <<>>]
  /\ epc' = [epc EXCEPT ![t] = IF @ = "generate" THEN "respond" ELSE @]
  /\ eans' = [eans EXCEPT ![t] = IF epc[t] = "generate" THEN lres[t] ELSE @]
  /\ UNCHANGED <<gpc, gTries, generator, getter, gDemand, echunks, eerr, askVars>>
  /\ UNCHANGED <<storeVars, chunkVars, dbVars, handed, given, ingestVars>>

\* a process that is importing llm_integration
LlmInit ==
  /\ MemInit
  /\ fIndex = Absent /\ fMeta = Absent
  /\ RetrieveIdle
  /\ ChunkOff
  /\ IngestOff
  /\ gpc = "import" /\ gTries = 0
  /\ generator = "unbound" /\ getter = "undefined" /\ gDemand = FALSE
  /\ LlmIdle
  /\ ApiIdle

LlmStep(t) ==
  \/ GenerateResponse(t) \/ GenerateStructured(t) \/ Fallback(t) \/ LlmReturn(t)

LlmNext == ImportAttempt \/ \E t \in Queriers : LlmStep(t)

LlmSpec == LlmInit /\ [][LlmNext]_vars

\* ---- app.query_endpoint ----------------------------------------------------
\* POST /query arrives: query = query_request.query; use_structured_output =
\* query_request.structured_output.  app imports llm_integration, so requests
\* are served once the import is over.
EndpointCall(t) ==
  /\ gpc = "up"
  /\ epc[t] = "none"
  /\ pc[t] = "idle" /\ rpc[t] = "none" /\ ipc[t] = "none" /\ lpc[t] = "none"
  /\ epc' = [epc EXCEPT ![t] = "retrieve"]
  /\ \E q \in Docs : eq' = [eq EXCEPT ![t] = q]
  /\ \E b \in BOOLEAN : estruct' = [estruct EXCEPT ![t] = b]
  /\ UNCHANGED <<echunks, eerr, eans, http, edetail>>
  /\ UNCHANGED <<storeVars, chunkVars, dbVars, handed, given, ingestVars, llmVars>>

\* retrieve_relevant_chunks is over.  It raised FileNotFoundError: the first
\* handler answers 404.  It raised another exception: the second handler
\* answers 500 with str(e).  It returned an empty list: `raise
\* HTTPException(status_code=404, ...)` stands inside the try statement and
\* HTTPException is an Exception, so the second handler catches it and answers
\* 500 with str(e).  Otherwise the endpoint goes on to generate the answer.
EndpointCheck(t) ==
  /\ epc[t] = "got"
  /\ IF eerr[t] \in {"FileNotFoundError: FAISS index not found",
                   "FileNotFoundError: Metadata file not found"}
       THEN /\ epc' = [epc EXCEPT ![t] = "done"]
            /\ http' = [http EXCEPT ![t] = 404]
            /\ edetail' = [edetail EXCEPT ![t] = "No document index found"]
       ELSE IF eerr[t] # "none"
         THEN /\ epc' = [epc EXCEPT ![t] = "done"]
              /\ http' = [http EXCEPT ![t] = 500]
              /\ edetail' = [edetail EXCEPT ![t] = eerr[t]]
         ELSE IF echunks[t] = <<>>
           THEN /\ epc' = [epc EXCEPT ![t] = "done"]
                /\ http' = [http EXCEPT ![t] = 500]
                /\ edetail' = [edetail EXCEPT ![t] = "str(HTTPException)"]
           ELSE /\ epc' = [epc EXCEPT ![t] = "generate"]
                /\ UNCHANGED <<http, edetail>>
  /\ UNCHANGED <<eq, estruct, echunks, eerr, eans>>
  /\ UNCHANGED <<storeVars, chunkVars, dbVars, handed, given, ingestVars, llmVars>>

\* return QueryResponse(..., answer=answer, ...): answer is declared
\* Union[str, StructuredResponse].  A string is accepted.  A parsed object is
\* accepted when it has the fields of StructuredResponse; the record with the
\* keys error and raw_response has not.  The validation error is raised inside
\* the try statement and the second handler answers 500.
EndpointRespond(t) ==
  /\ epc[t] = "respond"
  /\ epc' = [epc EXCEPT ![t] = "done"]
  /\ \/ /\ eans[t].kind = "text" \/ eans[t].kind = "parsed"
        /\ http' = [http EXCEPT ![t] = 200]
        /\ edetail' = [edetail EXCEPT ![t] = "none"]
     \/ /\ eans[t].kind = "parsed" \/ eans[t].kind = "error_record"
        /\ http' = [http EXCEPT ![t] = 500]
        /\ edetail' = [edetail EXCEPT ![t] = "ValidationError"]
  /\ UNCHANGED <<eq, estruct, echunks, eerr, eans>>
  /\ UNCHANGED <<storeVars, chunkVars, dbVars, handed, given, ingestVars, llmVars>>

\* the response has been sent; the request is over
EndpointEnd(t) ==
  /\ epc[t] = "done"
  /\ epc' = [epc EXCEPT ![t] = "none"]
  /\ eq' = [eq EXCEPT ![t] = 0]
  /\ estruct' = [estruct EXCEPT ![t] = FALSE]
  /\ echunks' = [echunks EXCEPT ![t] = <<>>]
  /\ eerr' = [eerr EXCEPT ![t] = "none"]
  /\ eans' = [eans EXCEPT ![t] = NoAnswer]
  /\ http' = [http EXCEPT ![t] = 0]
  /\ edetail' = [edetail EXCEPT ![t] = "none"]
  /\ UNCHANGED <<storeVars, chunkVars, dbVars, handed, given, ingestVars, llmVars>>

\* the steps of one request to /query: its own, those of
\* retrieve_relevant_chunks(query, db) and those of generate_response or
\* generate_structured_response(query, retrieved_chunks)
EndpointStep(t) ==
  \/ EndpointCall(t)
  \/ (epc[t] = "retrieve" /\ RetrieveCall(t))
  \/ RetrieveLoad(t)
  \/ LoadAcquire(t) \/ LoadCheck(t) \/ LoadReadIndex(t) \/ LoadReadMeta(t)
  \/ RetrieveSearch(t)
  \/ SearchAcquire(t) \/ SearchCheck(t) \/ SearchLookup(t) \/ SearchJoin(t)
  \/ Return(t)
  \/ RetrieveCommit(t) \/ RetrieveExcept(t) \/ RetrieveEnd(t)
  \/ EndpointCheck(t)
  \/ (epc[t] = "generate" /\ GenerateResponse(t))
  \/ (epc[t] = "generate" /\ GenerateStructured(t))
  \/ Fallback(t) \/ LlmReturn(t)
  \/ EndpointRespond(t) \/ EndpointEnd(t)

\* The served application starts: the index files are what earlier processes
\* left, and app is being imported.
AppInit ==
  /\ MemInit
  /\ fIndex \in {Absent} \cup {Complete(v) : v \in StoredIndexes}
  /\ fMeta \in {Absent} \cup {Complete(m) : m \in StoredMetas}
  /\ Exists(fMeta) => Exists(fIndex)
  /\ RetrieveIdle
  /\ ChunkOff
  /\ IngestOff
  /\ LlmIdle
  /\ ApiIdle
  /\ gpc = "import" /\ gTries = 0
  /\ generator = "unbound" /\ getter = "undefined" /\ gDemand = FALSE

AppNext == ImportAttempt \/ \E t \in Queriers : EndpointStep(t)

AppSpec == AppInit /\ [][AppNext]_vars

\* ---- the models at work ----------------------------------------------------
\* The process starts: the index files and the documents are what earlier
\* processes left, and llm_integration is being imported.
ServiceInit ==
  /\ MemInit
  /\ RetrieveIdle
  /\ ChunkOff
  /\ IngestIdle
  /\ LlmIdle
  /\ ApiIdle
  /\ gpc = "import" /\ gTries = 0
  /\ generator = "unbound" /\ getter = "undefined" /\ gDemand = FALSE
  /\ dataDir \in [Docs -> FileKinds]
  /\ dbDocs \in SUBSET Docs
  /\ Cardinality({f \in Docs : dataDir[f] = "long" /\ f \notin dbDocs}) <= MaxBatch
  /\ \/ fIndex = Absent /\ fMeta = Absent
     \/ \E n \in 0..Min(MaxStored, NumDocs) :
          /\ fIndex = Complete([i \in 1..n |-> i])
          /\ fMeta = Complete([k \in 0..(n - 1) |-> k + 1])
          /\ 1..n \subseteq dbDocs

\* once the import is over, some threads call retrieve_relevant_chunks and the
\* others preprocess_and_index_documents
ServiceNext ==
  \/ ImportAttempt
  \/ \E t \in Queriers : gpc = "up" /\ QueryStep(t)
  \/ \E t \in Threads \ Queriers : gpc = "up" /\ IngestStep(t)

ServiceSpec == ServiceInit /\ [][ServiceNext]_vars

\* ---- the process ----------------------------------------------------------
\* The process dies and is started again: memory is lost, the files stay.
Crash ==
  /\ UNCHANGED <<calls, issued, apart>>
  /\ lock' = Free
  /\ METADATA_STORE' = EmptyDict
  /\ pc' = [t \in Threads |-> "idle"]
  /\ fn' = [t \in Threads |-> "none"]
  /\ tindex' = [t \in Threads |-> NoIndex]
  /\ res' = [t \in Threads |-> "none"]
  /\ aBatch' = [t \in Threads |-> <<>>]
  /\ start_id' = [t \in Threads |-> 0]
  /\ ntotal0' = [t \in Threads |-> 0]
  /\ ret' = [t \in Threads |-> <<>>]
  /\ sIdx' = [t \in Threads |-> NoIndex]
  /\ sMeta' = [t \in Threads |-> NoMetaArg]
  /\ lIdx' = [t \in Threads |-> NoIndex]
  /\ qv' = [t \in Threads |-> 0]
  /\ topk' = [t \in Threads |-> 0]
  /\ sDist' = [t \in Threads |-> <<>>]
  /\ sHits' = [t \in Threads |-> <<>>]
  /\ sOut' = [t \in Threads |-> <<>>]
  /\ UNCHANGED <<disk, saved>>

\* a thread starts a call
Call(t) ==
  \/ CreateCall(t) \/ LoadCall(t) \/ SaveCall(t) \/ AddCall(t) \/ SearchCall(t)

\* a thread takes the next step of the call it is in
Continue(t) ==
  \/ CreateAcquire(t) \/ CreateBody(t)
  \/ LoadAcquire(t) \/ LoadCheck(t) \/ LoadReadIndex(t) \/ LoadReadMeta(t)
  \/ SaveAcquire(t) \/ SaveWriteIndexBegin(t) \/ SaveWriteIndexEnd(t)
  \/ SaveWriteMetaBegin(t) \/ SaveWriteMetaEnd(t)
  \/ SaveReplaceIndex(t) \/ SaveReplaceMeta(t) \/ SaveFail(t)
  \/ AddAcquire(t) \/ AddMeta(t) \/ AddAppend(t) \/ AddSave(t)
  \/ SearchAcquire(t) \/ SearchCheck(t) \/ SearchLookup(t) \/ SearchJoin(t)
  \/ Return(t)

Next == (\E t \in Threads : Call(t) \/ Continue(t)) \/ Crash

Spec == Init /\ [][Next]_vars

\* The interpreter schedules every runnable thread: a thread that can take
\* the next step of its call eventually takes it.  Nothing forces a thread to
\* start a call, and nothing forces a crash.
FairSpec == Spec /\ \A t \in Threads : WF_vars(Continue(t))

\* ---- properties -----------------------------------------------------------
LockWaits == {"create_lock", "load_lock", "save_lock", "add_lock", "search_lock"}

LoadBody == {"load_chk", "load_ridx", "load_rmeta"}

SaveBody == {"save_widx", "save_widx2", "save_wmeta", "save_wmeta2",
             "save_mv1", "save_mv2"}

SearchBody == {"search_chk", "search_nn", "search_join"}

\* C1: the pair of files a completed save_index has written holds as many
\* vectors as metadata entries (a state in which the two differ is never
\* written to disk by save_index).
C1_PersistedPairConsistent ==
  saved.ok => Len(fIndex.data) = DictLen(fMeta.data)

\* C2: no call blocks indefinitely: a call never waits for index_lock while
\* its own thread holds it (only the holder could release it).
C2_NoCallWaitsOnItself ==
  \A t \in Threads : pc[t] \in LockWaits => lock # t

\* C3: add is atomic: when add_documents_to_index ends, then after a failure
\* neither len(METADATA_STORE) nor index.ntotal has changed, and after a
\* success both have grown by exactly N.
C3_AddAtomic ==
  \A t \in Threads :
    (pc[t] = "ret" /\ fn[t] = "add") =>
      IF res[t] = "ok"
        THEN /\ DictLen(METADATA_STORE) = start_id[t] + Len(aBatch[t])
             /\ Ntotal(tindex[t]) = ntotal0[t] + Len(aBatch[t])
        ELSE /\ DictLen(METADATA_STORE) = start_id[t]
             /\ Ntotal(tindex[t]) = ntotal0[t]

\* C4: an add of N vectors whose vectors were appended returns, and what it
\* returns is exactly start_id .. start_id+N-1, every id larger than every id
\* returned before.
C4_AddReturnsIds ==
  /\ [](\A t \in Threads :
          (pc[t] = "ret" /\ fn[t] = "add" /\ res[t] = "ok") =>
             ret[t] = Ids(t))
  /\ [][\A t \in Threads :
          (pc[t] = "save_mv2" /\ fn[t] = "add" /\ pc'[t] = "ret" /\ res'[t] = "ok") =>
             \A i \in 1..Len(ret'[t]) : \A j \in issued : j < ret'[t][i]]_vars
  /\ \A t \in Threads : (pc[t] = "add_save") ~> (pc[t] \in {"ret", "idle"})

\* C5: add never goes on to persist when index.ntotal differs from
\* len(METADATA_STORE): no save_index call made by add carries such a pair.
C5_AddAbortsOnMismatch ==
  \A t \in Threads :
    (fn[t] = "add" /\ pc[t] = "save_lock") =>
       Ntotal(sIdx[t]) = DictLen(METADATA_STORE)

\* C6 (as claimed): a search does not acquire index_lock.
C6_SearchTakesNoLock ==
  \A t \in Threads : pc[t] \in SearchBody => lock # t

\* C6 (amended): search_index takes index_lock before it reads the index and
\* holds it up to its return, so no other thread is inside add, save or load
\* while a search is in its body.
C6_SearchHoldsLock ==
  \A t \in Threads : pc[t] \in SearchBody => lock = t

C6_Witness ==
  \E t, u \in Threads :
    /\ pc[t] = "search_join"
    /\ pc[u] \in {"add_lock", "save_lock", "load_lock"}
    /\ fn[u] \in {"add", "save", "load"}

\* C7: no load rebinds METADATA_STORE while a search is between its
\* nearest-neighbour lookup and its metadata join.
C7_NoRebindInsideSearch ==
  [][(\E u \in Threads : pc[u] = "load_rmeta" /\ pc'[u] = "ret" /\ res'[u] = "ok")
       => \A t \in Threads : pc[t] # "search_join"]_vars

C7_Witness ==
  \E t, u \in Threads :
    /\ pc[t] = "search_join" /\ Len(sHits[t]) > 0
    /\ pc[u] = "load_lock" /\ fn[u] = "load"
    /\ fMeta.st = "complete" /\ fMeta.data # METADATA_STORE

\* C8: the final files never hold partially written content, and a final
\* file changes only by one rename that installs the complete new version.
C8_FinalFilesWhole ==
  /\ [](fIndex.st # "partial" /\ fMeta.st # "partial")
  /\ [][/\ fIndex' # fIndex =>
             \E t \in Threads : pc[t] = "save_mv1" /\ fIndex' = Complete(sIdx[t].vecs)
        /\ fMeta' # fMeta =>
             \E t \in Threads : pc[t] = "save_mv2" /\ fMeta' = Complete(MetaArg(t))]_vars

C8_Witness ==
  \E t \in Threads :
    /\ pc[t] = "save_widx2" /\ tmpIndex.st = "partial"
    /\ fIndex.st = "complete" /\ fIndex.data # sIdx[t].vecs
    /\ tmpMeta.st = "partial"

\* C9: load_index raises the index-not-found error when the index file is
\* absent and the metadata-not-found error when only the metadata file is
\* absent; a load that fails hands no index to its caller and leaves
\* METADATA_STORE as it was.
C9_LoadFailsCleanly ==
  /\ [](\A t \in Threads :
          (pc[t] = "ret" /\ fn[t] = "load") =>
             /\ ~Exists(fIndex) => res[t] = "FileNotFoundError: FAISS index not found"
             /\ (Exists(fIndex) /\ ~Exists(fMeta)) =>
                   res[t] = "FileNotFoundError: Metadata file not found"
             /\ (Exists(fIndex) /\ Exists(fMeta)) => res[t] \in {"ok", "ReadError"})
  /\ [][\A t \in Threads :
          /\ (pc[t] \in LoadBody /\ fn[t] = "load" /\ pc'[t] # "idle"
                /\ METADATA_STORE' # METADATA_STORE) => res'[t] = "ok"
          /\ (pc[t] = "ret" /\ fn[t] = "load" /\ res[t] # "ok" /\ pc'[t] = "idle")
                => tindex'[t] \in {tindex[t], NoIndex}]_vars

C9_Witness ==
  \E t \in Threads :
    /\ pc[t] = "ret" /\ fn[t] = "load"
    /\ res[t] = "FileNotFoundError: Metadata file not found"
    /\ METADATA_STORE # EmptyDict

\* C10: a load that follows a completed save returns an index with the same
\* vectors (so the same count) and binds a metadata store with the same key
\* set and the same value under every key as the saved one.
C10_RoundTrip ==
  \A t \in Threads :
    (pc[t] = "ret" /\ fn[t] = "load" /\ res[t] = "ok" /\ saved.ok) =>
       /\ Ntotal(lIdx[t]) = Len(saved.idx)
       /\ lIdx[t].vecs = saved.idx
       /\ DOMAIN METADATA_STORE = DOMAIN saved.meta
       /\ \A k \in DOMAIN saved.meta : METADATA_STORE[k] = saved.meta[k]

C10_Witness ==
  \E t \in Threads :
    /\ pc[t] = "ret" /\ fn[t] = "load" /\ res[t] = "ok" /\ saved.ok
    /\ Len(saved.idx) > 0 /\ DictLen(saved.meta) > 0

\* ---- properties of search_index and retrieve_relevant_chunks --------------
\* search_index has reached its return statement in thread t
SearchReturned(t) == pc[t] = "ret" /\ fn[t] = "search" /\ res[t] = "ok"

NotFoundIndex == "FileNotFoundError: FAISS index not found"

\* what load_index and search_index can raise inside retrieve_relevant_chunks
CallErrors == {NotFoundIndex, "FileNotFoundError: Metadata file not found",
               "ReadError", "SearchError"}

\* the step is one of thread t
StepOf(t) == pc'[t] # pc[t] \/ rpc'[t] # rpc[t]

\* C11: search_index with top_k = k on an index of N vectors returns exactly
\* min(k, N) results, the distance, id and metadata lists equally long and the
\* ids distinct ids of the index; on an empty index it returns empty lists and
\* does not raise.
C11_SearchReturnsMinKN ==
  \A t \in Threads :
    (pc[t] = "ret" /\ fn[t] = "search") =>
      /\ Ntotal(tindex[t]) = 0 =>
           res[t] = "ok" /\ sDist[t] = <<>> /\ sHits[t] = <<>> /\ sOut[t] = <<>>
      /\ res[t] = "ok" =>
           /\ Len(sHits[t]) = Min(topk[t], Ntotal(tindex[t]))
           /\ Len(sDist[t]) = Len(sHits[t])
           /\ Len(sOut[t]) = Len(sHits[t])
           /\ \A i \in 1..Len(sHits[t]) : sHits[t][i] \in 0..(Ntotal(tindex[t]) - 1)
           /\ \A i, j \in 1..Len(sHits[t]) : i # j => sHits[t][i] # sHits[t][j]

\* a search for fewer neighbours than the index holds has returned
C11_Witness ==
  \E t \in Threads :
    SearchReturned(t) /\ topk[t] < Ntotal(tindex[t]) /\ Len(sHits[t]) = topk[t]

\* C12 as stated: results are best-first, equal distances ordered by smaller
\* id first, and retrieve returns the metadata records in that order.
C12_BestFirstTiesById ==
  \A t \in Threads :
    /\ SearchReturned(t) =>
         \A i, j \in 1..Len(sHits[t]) :
           i < j => \/ sDist[t][i] < sDist[t][j]
                    \/ sDist[t][i] = sDist[t][j] /\ sHits[t][i] < sHits[t][j]
    /\ rpc[t] = "done" =>
         /\ rret[t] = rout[t]
         /\ \A i, j \in 1..Len(rhits[t]) :
              i < j => \/ rdist[t][i] < rdist[t][j]
                       \/ rdist[t][i] = rdist[t][j] /\ rhits[t][i] < rhits[t][j]

\* C12, amended: results are best-first by distance (distance(i) <= distance(j)
\* for i before j), each distance and metadata record being the one of the id
\* at the same position; retrieve returns the metadata records of the search
\* in that order.  Nothing orders results of equal distance.
C12_BestFirst ==
  \A t \in Threads :
    /\ SearchReturned(t) =>
         /\ \A i, j \in 1..Len(sHits[t]) : i < j => sDist[t][i] <= sDist[t][j]
         /\ \A i \in 1..Len(sHits[t]) :
              /\ sDist[t][i] = Dist(tindex[t].vecs[sHits[t][i] + 1], qv[t])
              /\ sOut[t][i] = get_metadata_by_id(sHits[t][i])
    /\ rpc[t] \in {"record", "done"} =>
         /\ Len(rdist[t]) = Len(rhits[t]) /\ Len(rout[t]) = Len(rhits[t])
         /\ \A i, j \in 1..Len(rhits[t]) : i < j => rdist[t][i] <= rdist[t][j]
         /\ \A i \in 1..Len(rhits[t]) :
              rout[t][i] = IF rhits[t][i] \in DOMAIN fMeta.data
                             THEN fMeta.data[rhits[t][i]] ELSE EmptyMeta
    /\ rpc[t] = "done" => rret[t] = rout[t]

\* retrieve has returned two records of equal distance, the larger id first
C12_Witness ==
  \E t \in Threads :
    /\ rpc[t] = "done" /\ Len(rret[t]) = 2
    /\ rdist[t][1] = rdist[t][2]
    /\ rhits[t][1] > rhits[t][2]

\* C13: while no index file has been persisted, retrieve_relevant_chunks never
\* returns a result and never gets past load_index, and the exception it
\* raises is the FileNotFoundError of load_index (unless the session flush or
\* the query embedding raised before load_index was called).
C13_NoIndexRaisesNotFound ==
  ~Exists(fIndex) =>
    \A t \in Threads :
      /\ rpc[t] \notin {"search", "record", "done"}
      /\ (rpc[t] \in {"except", "raised"} /\ rerr[t] \notin {"DBError", "EmbedError"})
           => rerr[t] = NotFoundIndex

\* retrieve has raised the FileNotFoundError of load_index, no index file on disk
C13_Witness ==
  /\ ~Exists(fIndex)
  /\ \E t \in Threads : rpc[t] = "raised" /\ rerr[t] = NotFoundIndex

\* C14: a retrieve_relevant_chunks that raises (load_index or search_index
\* failed, or the database did) has rolled the session back exactly once and
\* committed nothing: no Query row survives, and the caller gets the exception
\* that was raised; one that returns has committed exactly once and never
\* rolled back.
C14_RollbackOrCommitOnce ==
  \A t \in Threads :
    /\ rpc[t] = "raised" =>
         /\ nRollback[t] = 1 /\ nCommit[t] = 0
         /\ dbPending[t] = 0 /\ ~dbLogged[t]
         /\ rerr[t] \in CallErrors \cup {"DBError", "EmbedError"}
    /\ (rpc[t] = "except" /\ rerr[t] \in CallErrors) =>
         nRollback[t] = 0 /\ nCommit[t] = 0 /\ ~dbLogged[t]
    /\ rpc[t] = "done" =>
         /\ nCommit[t] = 1 /\ nRollback[t] = 0
         /\ dbPending[t] = 0 /\ dbLogged[t]
         /\ rerr[t] = "none"

\* a retrieve has raised after its search failed, the session rolled back
C14_Witness ==
  \E t \in Threads :
    rpc[t] = "raised" /\ rerr[t] = "SearchError" /\ nRollback[t] = 1

\* C15: the list retrieve_relevant_chunks returns holds no empty metadata
\* record: every id the search returned without an entry in the metadata store
\* has been dropped.
C15_NoEmptyRecordReturned ==
  \A t \in Threads :
    rpc[t] = "done" =>
      /\ \A i \in 1..Len(rret[t]) : rret[t][i] # EmptyMeta
      /\ Len(rret[t]) =
           Cardinality({i \in 1..Len(rhits[t]) : rhits[t][i] \in DOMAIN fMeta.data})

\* C16 as stated: no step of a retrieve_relevant_chunks call changes the
\* in-memory metadata store.
C16_RetrieveLeavesStore ==
  [][\A t \in Threads :
       (rpc[t] # "none" /\ StepOf(t)) => METADATA_STORE' = METADATA_STORE]_vars

\* C16, amended: the only step of a retrieve_relevant_chunks call that changes
\* the in-memory metadata store is the one of its load_index call that binds
\* METADATA_STORE to the dict read from the metadata file; the search and
\* everything after it leave the store as it is.
C16_RetrieveOnlyLoadsStore ==
  [][\A t \in Threads :
       (rpc[t] # "none" /\ StepOf(t)) =>
         \/ METADATA_STORE' = METADATA_STORE
         \/ /\ rpc[t] = "load" /\ pc[t] = "load_rmeta"
            /\ METADATA_STORE' = fMeta.data]_vars

\* a retrieve is past its load_index call, which replaced an empty store by
\* the persisted one, and its search found an id that has no entry
C16_Witness ==
  \E t \in Threads :
    /\ rpc[t] = "search" /\ pc[t] = "ret"
    /\ METADATA_STORE # EmptyDict
    /\ \E i \in 1..Len(sHits[t]) : sHits[t][i] \notin DOMAIN METADATA_STORE

\* ---- properties of chunk_document -----------------------------------------
\* the list chunk_document returned
Chunks == cRun.chunks

\* every buffer the call closed, returned or not
Closed == cRun.closed

\* a chunk with its overlap prefix removed
Fresh(b) == SubSeq(b.toks, b.pre + 1, Len(b.toks))

RECURSIVE FreshConcat(_)
FreshConcat(bs) ==
  IF bs = <<>> THEN <<>> ELSE Fresh(Head(bs)) \o FreshConcat(Tail(bs))

\* the words of the text, sentence after sentence
RECURSIVE AllWords(_, _)
AllWords(lens, s) ==
  IF s > Len(lens) THEN <<>> ELSE Sent(lens, s) \o AllWords(lens, s + 1)

\* the words all belong to one sentence
OneSentence(words) == \A a, b \in 1..Len(words) : words[a][1] = words[b][1]

\* the buffer had reached min_chunk_size when it was closed
Kept(b) == Len(b.toks) >= cMin

\* sentence s stands whole somewhere in the words
Contains(words, s) ==
  \E k \in 1..Len(words) :
    /\ k + cSents[s] - 1 <= Len(words)
    /\ SubSeq(words, k, k + cSents[s] - 1) = Sent(cSents, s)

\* chunk b begins with the last `overlap` words of chunk a (all of them, if
\* fewer; none when overlap = 0), followed by a whole sentence
Follows(a, b) ==
  LET n == IF cOv > 0 THEN Min(cOv, Len(a.toks)) ELSE 0
  IN  /\ Len(b.toks) > n
      /\ SubSeq(b.toks, 1, n) = SubSeq(a.toks, Len(a.toks) - n + 1, Len(a.toks))
      /\ b.toks[n + 1][2] = 1
      /\ Contains(SubSeq(b.toks, n + 1, Len(b.toks)), b.toks[n + 1][1])
      /\ b.toks[n + cSents[b.toks[n + 1][1]]] = <<b.toks[n + 1][1], cSents[b.toks[n + 1][1]]>>

\* C17 as stated: every returned chunk except possibly the last has between
\* min_chunk_size and max_chunk_size words (shown here to fail even when
\* 1 <= min_chunk_size <= max_chunk_size).
C17_ChunkSizeWithinBounds ==
  (cPc = "done" /\ 1 <= cMin /\ cMin <= cMax) =>
    \A i \in 1..(Len(Chunks) - 1) :
      cMin <= Len(Chunks[i].toks) /\ Len(Chunks[i].toks) <= cMax

\* C17, amended: every returned chunk, the last included, has at least
\* min_chunk_size words; it has at most max_chunk_size words unless it is at
\* most `overlap` carried-over words followed by exactly one sentence.
C17_ChunkSizeBounds ==
  cPc = "done" =>
    \A i \in 1..Len(Chunks) :
      /\ Len(Chunks[i].toks) >= cMin
      /\ \/ Len(Chunks[i].toks) <= cMax
         \/ /\ OneSentence(Fresh(Chunks[i]))
            /\ Chunks[i].pre <= cOv

\* a chunk that is not the last is larger than max_chunk_size although no
\* sentence of the text is
C17_Witness ==
  /\ cPc = "done" /\ cMin <= cMax
  /\ \A s \in 1..Len(cSents) : cSents[s] <= cMax
  /\ \E i \in 1..(Len(Chunks) - 1) : Len(Chunks[i].toks) > cMax

\* C18 as stated: the returned chunks, overlap prefixes removed and
\* concatenated in order, are the sentences of the text: none dropped, none
\* twice (shown here to fail even when min_chunk_size <= max_chunk_size).
C18_ChunksCoverText ==
  (cPc = "done" /\ cMin <= cMax) => FreshConcat(Chunks) = AllWords(cSents, 1)

\* C18, amended: the buffers the loop closes, overlap prefixes removed and
\* concatenated in order, are the sentences of the text, none dropped and none
\* twice; the returned chunks are, in order, those of the buffers that had at
\* least min_chunk_size words, so the sentences of a shorter buffer are missing
\* from the result.
C18_ClosedBuffersCoverText ==
  cPc = "done" =>
    /\ FreshConcat(Closed) = AllWords(cSents, 1)
    /\ Chunks = SelectSeq(Closed, Kept)

\* two chunks are returned, one with an overlap prefix, and a buffer that held
\* words was discarded
C18_Witness ==
  /\ cPc = "done"
  /\ Len(Chunks) >= 2
  /\ \E j \in 1..Len(Closed) : ~Kept(Closed[j]) /\ Closed[j].toks # <<>>
  /\ \E i \in 1..Len(Chunks) : Chunks[i].pre > 0

\* C19 as stated: of two adjacent returned chunks the later one begins with
\* the last `overlap` words of the earlier one (none when overlap = 0),
\* followed by a whole sentence (shown here to fail even when
\* min_chunk_size <= max_chunk_size).
C19_OverlapFromPreviousChunk ==
  (cPc = "done" /\ cMin <= cMax) =>
    \A i \in 1..(Len(Chunks) - 1) : Follows(Chunks[i], Chunks[i + 1])

\* C19, amended: every buffer begins with the last `overlap` words (none when
\* overlap = 0) of the buffer closed just before it, followed by the whole
\* sentence after the last one of that buffer; the buffer closed just before a
\* returned chunk is the earlier returned chunk only if it had reached
\* min_chunk_size.
C19_OverlapFromPreviousBuffer ==
  cPc = "done" =>
    /\ \A i \in 1..(Len(Closed) - 1) :
         /\ Follows(Closed[i], Closed[i + 1])
         /\ Closed[i].toks # <<>> =>
              Fresh(Closed[i + 1])[1][1] = Closed[i].toks[Len(Closed[i].toks)][1] + 1
    /\ \A i \in 1..Len(Chunks) : \E j \in 1..Len(Closed) : Chunks[i] = Closed[j]

\* two adjacent returned chunks with a discarded buffer between them, overlap > 0
C19_Witness ==
  /\ cPc = "done" /\ cOv > 0
  /\ \E j \in 2..(Len(Closed) - 1) :
       /\ ~Kept(Closed[j])
       /\ Kept(Closed[j - 1]) /\ Kept(Closed[j + 1])
       /\ Closed[j - 1].toks # <<>>

\* C20 as stated: a sentence with more than max_chunk_size words is in a
\* returned chunk that holds it whole and holds no other sentence whole, and no
\* chunk holds part of a sentence outside its overlap prefix (shown here to
\* fail even when min_chunk_size <= 1, where no buffer is ever discarded).
C20_OversizedSentenceAlone ==
  (cPc = "done" /\ cMin <= 1) =>
    /\ \A s \in 1..Len(cSents) :
         cSents[s] > cMax =>
           \E i \in 1..Len(Chunks) :
             /\ Contains(Chunks[i].toks, s)
             /\ \A r \in 1..Len(cSents) : r # s => ~Contains(Chunks[i].toks, r)
    /\ \A i \in 1..Len(Chunks) : \A s \in 1..Len(cSents) :
         \/ Contains(Fresh(Chunks[i]), s)
         \/ \A k \in 1..Len(Fresh(Chunks[i])) : Fresh(Chunks[i])[k][1] # s

\* C20, amended: a sentence with more than max_chunk_size words and at least
\* min_chunk_size words is returned in a chunk that is at most `overlap`
\* carried-over words followed by that sentence whole and nothing else; and
\* outside its overlap prefix a chunk holds every sentence whole or not at all.
C20_OversizedSentenceOwnChunk ==
  cPc = "done" =>
    /\ \A s \in 1..Len(cSents) :
         (cSents[s] > cMax /\ cSents[s] >= cMin) =>
           \E i \in 1..Len(Chunks) :
             /\ Fresh(Chunks[i]) = Sent(cSents, s)
             /\ Chunks[i].pre <= cOv
    /\ \A i \in 1..Len(Chunks) : \A s \in 1..Len(cSents) :
         \/ Contains(Fresh(Chunks[i]), s)
         \/ \A k \in 1..Len(Fresh(Chunks[i])) : Fresh(Chunks[i])[k][1] # s

\* an oversized sentence between two others is returned behind an overlap
\* prefix that holds the whole sentence before it
C20_Witness ==
  /\ cPc = "done"
  /\ \E s \in 2..(Len(cSents) - 1) : \E i \in 1..Len(Chunks) :
       /\ cSents[s] > cMax
       /\ Fresh(Chunks[i]) = Sent(cSents, s)
       /\ Contains(SubSeq(Chunks[i].toks, 1, Chunks[i].pre), s - 1)

\* the number of words of the text
TotalWords == Len(AllWords(cSents, 1))

\* C21 as stated: for a text of at least min_chunk_size and at most
\* max_chunk_size words, chunk_document with overlap = 0 returns exactly one
\* chunk, the sentences of the text joined in order.
C21_SmallTextOneChunk ==
  (cPc = "done" /\ cOv = 0 /\ cMin <= TotalWords /\ TotalWords <= cMax) =>
    /\ Len(Chunks) = 1
    /\ Chunks[1].toks = AllWords(cSents, 1)

\* C21, amended: the same for a text of at least one word.
C21_SmallNonEmptyTextOneChunk ==
  (cPc = "done" /\ cOv = 0 /\ TotalWords >= 1
     /\ cMin <= TotalWords /\ TotalWords <= cMax) =>
    /\ Len(Chunks) = 1
    /\ Chunks[1].toks = AllWords(cSents, 1)

\* a text of several sentences that fits one chunk came back as one chunk
C21_Witness ==
  /\ cPc = "done" /\ cOv = 0 /\ Len(cSents) >= 2
  /\ 1 <= cMin /\ cMin <= TotalWords /\ TotalWords <= cMax
  /\ Len(Chunks) = 1
  /\ Chunks[1].toks = AllWords(cSents, 1)

\* ---- properties of preprocess_and_index_documents -------------------------
\* the documents whose vectors the persisted index holds
PersistedDocs ==
  IF fIndex.st = "complete" THEN {fIndex.data[i] : i \in 1..Len(fIndex.data)} ELSE {}

\* the chunks the run of thread t is indexing
RunChunks(t) == {iChunks[t][i] : i \in 1..Len(iChunks[t])}

\* thread t is inside the create_faiss_index or add_documents_to_index call of
\* its run, or about to make it
Indexing(t) == ipc[t] \in {"create", "add"}

\* C22: a run of preprocess_and_index_documents that begins after a run over
\* the same files has completed without error skips every document: it adds
\* no document row, collects no chunk and so never calls create_faiss_index
\* or add_documents_to_index (no vector and no metadata entry is added).
C22_SecondRunAddsNothing ==
  \A t \in Threads :
    iAfter[t] =>
      /\ iNew[t] = {}
      /\ iChunks[t] = <<>>
      /\ ~Indexing(t)
      /\ fn[t] = "none"

\* a run that began after a successful one has gone through a data directory
\* that holds a file with text to index, and is done
C22_Witness ==
  \E t \in Threads :
    /\ iAfter[t] /\ ipc[t] = "done"
    /\ \E f \in Docs : dataDir[f] = "long"
    /\ \E f \in Docs : dataDir[f] = "short"

\* C26: the id add_documents_to_index gives a vector is the vector's position
\* in the index, and the metadata found under that position (what search_index
\* attaches to a hit on the vector) is the metadata passed to add with it.
\* Stated for an add that has appended its vectors and stored its metadata.
C26_IdIsPosition ==
  \A t \in Threads :
    (fn[t] = "add" /\ pc[t] \in {"add_save", "save_lock"}) =>
      \A i \in 1..Len(aBatch[t]) :
        /\ Ids(t)[i] = ntotal0[t] + i - 1
        /\ tindex[t].vecs[ntotal0[t] + i] = aBatch[t][i]
        /\ get_metadata_by_id(ntotal0[t] + i - 1) = MetaOf(aBatch[t])[i - 1]

\* C27: a run that calls add_documents_to_index with its chunks gets them
\* persisted: eventually the index file holds them and holds as many vectors
\* as the metadata file holds entries (or the run has ended with an error).
C27_RunsArePersisted ==
  \A t \in Threads : \A f \in Docs :
    (ipc[t] = "add" /\ f \in RunChunks(t)) ~>
      \/ /\ fIndex.st = "complete" /\ fMeta.st = "complete"
         /\ f \in PersistedDocs
         /\ Len(fIndex.data) = DictLen(fMeta.data)
      \/ ipc[t] \in {"except", "raised"}

Parsed(t) == ParseJson(extract_response(ltext[t][1], Prompt))

\* thread t's call of f has reached its return statement
Returning(t, f) == lfn[t] = f /\ lpc[t] = "ret"

\* C24: when the text generated for generate_structured_response does not
\* parse (no braces found, or json.loads raises JSONDecodeError), the call
\* returns a record with an error marker and, as raw_response, what
\* generate_response returned, having called generate_response exactly once,
\* with its own query and chunks.
C24_FallbackOnUnparsable ==
  \A t \in Threads :
    (Returning(t, "generate_structured_response") /\ ltext[t] # <<>>
       /\ Parsed(t) # "parsed") =>
      /\ lres[t].kind = "error_record"
      /\ lres[t].err \in {"Invalid JSON format", "JSON parsing error"}
      /\ lres[t].raw.kind \in {"answer", "apology"}
      /\ lres[t].raw.q = lq[t] /\ lres[t].raw.ch = lch[t]
      /\ lfb[t] = << <<lq[t], lch[t]>> >>

\* a text with braces that json.loads rejects came back as an error record
\* that carries the answer of generate_response
C24_Witness ==
  \E t \in Threads :
    /\ Returning(t, "generate_structured_response") /\ ltext[t] # <<>>
    /\ Parsed(t) = "JSONDecodeError"
    /\ lch[t] # <<>>
    /\ lres[t].kind = "error_record" /\ lres[t].raw.kind = "answer"

\* C29: when the import of llm_integration has given up on
\* initialize_generator, a generate_response call makes get_generator call
\* initialize_generator, and when that has given the generator the call returns
\* the generated answer, not the apology for a missing generator.
C29_InitializesOnDemand ==
  \A t \in Threads :
    (getter = "on_demand" /\ Returning(t, "generate_response")) =>
      /\ gDemand
      /\ generator = "ready" =>
           (lres[t].raw.kind = "answer" \/ lres[t].raw.err = "GenerationError")

\* C23: load_embedding_model and initialize_generator are attempted at most
\* three times; a successful attempt gives the model and ends the attempts; the
\* third failure in a row surfaces an error to the caller; and a failure of the
\* encoder inside retrieve_relevant_chunks is not retried and goes straight to
\* the caller.
C23_ThreeAttempts ==
  /\ [](/\ gTries <= 3
        /\ gpc = "import" => (gTries < 3 /\ generator = "unbound")
        /\ (gpc = "up" /\ generator # "ready") => (gTries = 3 /\ getter = "on_demand")
        /\ \A t \in Threads :
             /\ iTries[t] <= 3
             /\ ipc[t] = "model" => iTries[t] < 3
             /\ ierr[t] = "RetryError" => (iTries[t] = 3 /\ ipc[t] \in {"except", "raised"})
             /\ rerr[t] = "EmbedError" => (rpc[t] \in {"except", "raised"} /\ ~iEmb[t]))
  /\ [][/\ gTries' # gTries => (gTries' = gTries + 1 /\ gpc = "import")
        /\ (generator' = "ready" /\ generator # "ready") => (gpc' = "up" /\ getter' = "pass")
        /\ \A t \in Threads :
             /\ (ipc[t] = "model" /\ iTries'[t] # iTries[t]) => iTries'[t] = iTries[t] + 1
             /\ (ipc[t] = "model" /\ ipc'[t] = "scan") => iTries'[t] <= 3
             /\ (ipc[t] = "model" /\ iTries'[t] = 3 /\ ipc'[t] # "scan") =>
                  (ipc'[t] = "except" /\ ierr'[t] = "RetryError")
             /\ (rpc[t] = "none" /\ rerr'[t] = "EmbedError") => rpc'[t] = "except"
             /\ (rpc[t] = "except" /\ rerr[t] = "EmbedError") =>
                  (rpc'[t] \in {"except", "raised"} /\ rerr'[t] = "EmbedError")]_vars

\* the import has given up after its third attempt, a run of ingestion has the
\* error of the third failed load_embedding_model, and a query is about to
\* raise the error of its encoder
C23_Witness ==
  /\ gpc = "up" /\ gTries = 3 /\ getter = "on_demand"
  /\ \E t \in Threads : ierr[t] = "RetryError" /\ iTries[t] = 3
  /\ \E t \in Threads : rerr[t] = "EmbedError" /\ rpc[t] = "raised"

\* C25: when retrieve_relevant_chunks returns an empty list, /query answers
\* with status 404 and the detail "No relevant documents found", never with
\* status 500.
C25_EmptyListIs404 ==
  \A t \in Threads :
    (epc[t] = "done" /\ eerr[t] = "none" /\ echunks[t] = <<>> /\ eans[t] = NoAnswer) =>
      (http[t] = 404 /\ edetail[t] = "No relevant documents found")

\* C30: the encoder is called outside index_lock and before the index is
\* touched: a run of ingestion that is at create_faiss_index or
\* add_documents_to_index has its embeddings, a retrieval that is at
\* load_index or beyond has its query embedding, no thread is inside a
\* vector-store function without them, and the step in which a thread gets its
\* embeddings is taken by a thread that is in no vector-store function and does
\* not hold the lock.
C30_EmbedOutsideLock ==
  /\ [](\A t \in Threads :
          /\ ipc[t] \in {"create", "add"} => iEmb[t]
          /\ rpc[t] \in {"load", "search", "record", "done"} => iEmb[t]
          /\ (pc[t] # "idle" \/ lock = t) => iEmb[t])
  /\ [][\A t \in Threads :
          (iEmb'[t] /\ ~iEmb[t]) =>
            /\ pc[t] = "idle" /\ pc'[t] = "idle"
            /\ lock # t /\ lock' # t
            /\ METADATA_STORE' = METADATA_STORE
            /\ tindex'[t] = tindex[t]]_vars

\* one thread holds the lock inside add_documents_to_index with its embeddings
\* computed, and another has its query embedding and waits for the lock in
\* load_index
C30_Witness ==
  \E t, u \in Threads :
    /\ ipc[t] = "add" /\ lock = t /\ iEmb[t]
    /\ rpc[u] = "load" /\ pc[u] # "idle" /\ iEmb[u]

====
